---- MODULE Spec2Model ----
(***************************************************************************)
(* prepagent-chess: branch scoring (prep_agent/scoring.py), preference     *)
(* normalisation (prep_agent/prefs.py) and target planning                 *)
(* (prep_agent/planner.py).                                                *)
(*                                                                         *)
(* Conventions                                                             *)
(*  - a Python str is a sequence of one-character strings, so that         *)
(*    lower(), strip(), join(), startswith() and `in` are computed;        *)
(*  - a Python float that the code computes from integers is an exact      *)
(*    fraction [n, d] in lowest terms; round(x, k) yields the integer      *)
(*    number of 10^-k units, so a stored score of 1.0 is 10000.            *)
(***************************************************************************)
EXTENDS Integers, Sequences, FiniteSets, TLC

VARIABLES
    report, prefs, config,      \* arguments of the scoring and selection calls
    batch, evals,               \* the PGN batch of an import, the engine's answers
    ranked, planned,            \* results of score_branches, build_planned_prep
    targets, simple_plan,       \* results of build_targets, build_simple_plan
    ingest, profile, extracted, \* results of ingest_pgns, build_opening_profile,
                                \* extract_opponent_blunders
    faults,                     \* where the engine fails in this run
    engine,                     \* what has been done to the engine process
    prep,                       \* result of run_prep
    graph,                      \* the state of a run of the prep graph
    store, procs,               \* the stored session, the operations on it
    pc                          \* which call has been made

vars == <<report, prefs, config, batch, evals, ranked, planned, targets,
          simple_plan, ingest, profile, extracted, faults, engine, prep, graph,
          store, procs, pc>>

\* ---------------------------------------------------------------- bounds
\* Largest game count of an opening branch in the enumerated reports.
MaxGames == 3
\* Longest list of mistake events in the enumerated reports.
MaxEvents == 2
\* Largest per-side cap (targets, turning points) in the enumerated preferences.
MaxCap == 2

\* ------------------------------------------------------------ enum values
WHITE == "white"
BLACK == "black"
SOLID == "solid"
PRACTICAL == "practical"
SHARP == "sharp"

\* ------------------------------------------------------------------ values
\* The value of a one-element set. An intermediate result of the code (a local
\* variable, an evaluated argument) is bound as x \in {e}, so it is computed
\* once, as the assignment in the code computes it once.
The(S) == CHOOSE r \in S : TRUE

\* ----------------------------------------------------------------- strings
\* str.lower() on one character, for the letters the enumerated texts use.
LowerChar(c) ==
    CASE c = "N" -> "n"
      [] c = "C" -> "c"
      [] c = "D" -> "d"
      [] c = "E" -> "e"
      [] c = "F" -> "f"
      [] OTHER -> c

lower(s) == The({[i \in 1..Len(v) |-> LowerChar(v[i])] : v \in {s}})

RECURSIVE strip(_)
strip(s) ==
    The({IF v = <<>> THEN v
         ELSE IF v[1] = " " THEN strip(Tail(v))
         ELSE IF v[Len(v)] = " " THEN strip(SubSeq(v, 1, Len(v) - 1))
         ELSE v : v \in {s}})

\* " ".join(moves)
RECURSIVE join(_)
join(moves) ==
    The({IF v = <<>> THEN <<>>
         ELSE IF Len(v) = 1 THEN v[1]
         ELSE v[1] \o <<" ">> \o join(Tail(v)) : v \in {moves}})

\* s.startswith(p)
startswith(s, p) ==
    \E sv \in {s}, pv \in {p} : Len(pv) <= Len(sv) /\ SubSeq(sv, 1, Len(pv)) = pv

\* k in txt (substring test; the empty string is in every text)
contains(txt, k) ==
    \E tv \in {txt}, kv \in {k} :
        \E i \in 0..(Len(tv) - Len(kv)) : SubSeq(tv, i + 1, i + Len(kv)) = kv

\* --------------------------------------------------------------- fractions
RECURSIVE GCD(_, _)
GCD(a, b) == The({IF y = 0 THEN x ELSE GCD(y, x % y) : x \in {a}, y \in {b}})

Abs(x) == IF x < 0 THEN -x ELSE x

\* n/d in lowest terms, d > 0
Frac(n, d) ==
    The({The({[n |-> s * (nv \div g), d |-> s * (dv \div g)]
              : g \in {GCD(Abs(nv), Abs(dv))}, s \in {IF dv < 0 THEN -1 ELSE 1}})
         : nv \in {n}, dv \in {d}})

FInt(k) == The({[n |-> kv, d |-> 1] : kv \in {k}})
FAdd(a, b) == The({Frac(x.n * y.d + y.n * x.d, x.d * y.d) : x \in {a}, y \in {b}})
FMul(a, b) == The({Frac(x.n * y.n, x.d * y.d) : x \in {a}, y \in {b}})
FDiv(a, b) == The({Frac(x.n * y.d, x.d * y.n) : x \in {a}, y \in {b}})
FLeq(a, b) == \E x \in {a}, y \in {b} : x.n * y.d <= y.n * x.d
FLess(a, b) == \E x \in {a}, y \in {b} : x.n * y.d < y.n * x.d
FMin(a, b) == The({IF FLeq(x, y) THEN x ELSE y : x \in {a}, y \in {b}})

\* 10^k
RECURSIVE Pow10(_)
Pow10(k) == IF k = 0 THEN 1 ELSE 10 * Pow10(k - 1)

\* floor(x * 10^k) and the remainder over x.d, by long division (one decimal
\* digit a step keeps the intermediate products small)
RECURSIVE Digits(_, _)
Digits(x, k) ==
    IF k = 0 THEN [q |-> x.n \div x.d, r |-> x.n % x.d]
    ELSE The({[q |-> 10 * p.q + ((10 * p.r) \div x.d), r |-> (10 * p.r) % x.d]
              : p \in {Digits(x, k - 1)}})

\* round(x, k) for x >= 0: the nearest multiple of 10^-k, in units of 10^-k;
\* an exact tie goes to the even neighbour
round(x, k) ==
    The({The({IF 2 * p.r > xv.d THEN p.q + 1
              ELSE IF 2 * p.r < xv.d THEN p.q
              ELSE IF p.q % 2 = 0 THEN p.q ELSE p.q + 1
              : p \in {Digits(xv, k)}})
         : xv \in {x}})

\* ------------------------------------------------------------- preferences
Max(a, b) == The({IF x >= y THEN x ELSE y : x \in {a}, y \in {b}})

NonBlank(m) == strip(m) /= <<>>

\* [m.strip() for m in xs if m.strip()]
StripAll(xs) ==
    The({[i \in 1..Len(kept) |-> strip(kept[i])] : kept \in {SelectSeq(xs, NonBlank)}})

\* PrepPrefs.normalize
normalize(p) ==
    [focus |-> p.focus,
     risk |-> p.risk,
     as_white_first_moves |-> StripAll(p.as_white_first_moves),
     banned_branch_keywords |-> StripAll(p.banned_branch_keywords),
     max_targets_per_side |-> Max(1, p.max_targets_per_side),
     max_turning_points_per_side |-> Max(1, p.max_turning_points_per_side)]

\* PrepPrefs.validate (prefs.py:65-87): the list of errors; the two lists of
\* Black defences keep their non-empty defaults in every input
validate(p) ==
    (IF p.focus \notin {"both", "opp_as_white", "opp_as_black"}
     THEN <<"Invalid focus">> ELSE <<>>)
    \o (IF p.as_white_first_moves = <<>>
        THEN <<"At least one first move as White is required">> ELSE <<>>)
    \o (IF p.max_targets_per_side < 1
        THEN <<"Max targets per side must be at least 1">> ELSE <<>>)
    \o (IF p.max_turning_points_per_side < 1
        THEN <<"Max turning points per side must be at least 1">> ELSE <<>>)

\* ------------------------------------------------------------------ scoring
\* mutant: the sharp profile carries the solid profile's weights
_WEIGHTS_sharp_as_solid(risk) ==
    CASE risk = SOLID -> <<Frac(50, 100), Frac(20, 100), Frac(30, 100)>>
      [] risk = PRACTICAL -> <<Frac(40, 100), Frac(35, 100), Frac(25, 100)>>
      [] risk = SHARP -> <<Frac(50, 100), Frac(20, 100), Frac(30, 100)>>

\* _WEIGHTS[risk] = (frequency, weakness, fit)
_WEIGHTS(risk) ==
    CASE risk = SOLID -> <<Frac(50, 100), Frac(20, 100), Frac(30, 100)>>
      [] risk = PRACTICAL -> <<Frac(40, 100), Frac(35, 100), Frac(25, 100)>>
      [] risk = SHARP -> <<Frac(25, 100), Frac(50, 100), Frac(25, 100)>>

\* mutant: the branch text keeps its letter case
_branch_text_cased(branch) == join(branch.moves_san)

_branch_text(branch) == lower(join(branch.moves_san))

_is_banned(branch, banned_keywords_lc) ==
    IF banned_keywords_lc = <<>> THEN FALSE
    ELSE \E txt \in {_branch_text(branch)} :
            \E i \in 1..Len(banned_keywords_lc) : contains(txt, banned_keywords_lc[i])

\* mutant: the user's first moves are compared in the case they were typed in
_fits_repertoire_cased(branch, opponent_side, p) ==
    \E moves \in {branch.moves_san} :
        IF moves = <<>> THEN TRUE
        ELSE IF opponent_side = BLACK
             THEN \E first \in {lower(moves[1])} :
                     \E i \in 1..Len(p.as_white_first_moves) :
                        startswith(first, p.as_white_first_moves[i])
             ELSE TRUE

_fits_repertoire(branch, opponent_side, p) ==
    \E moves \in {branch.moves_san} :
        IF moves = <<>> THEN TRUE
        ELSE IF opponent_side = BLACK
             THEN \E first \in {lower(moves[1])} :
                     \E i \in 1..Len(p.as_white_first_moves) :
                        startswith(first, lower(p.as_white_first_moves[i]))
             ELSE TRUE

Half == Frac(1, 2)
One == FInt(1)
Zero == FInt(0)

\* mutant: events of either side count
Matching_any_side(branch_key, opponent_side, blunders) ==
    LET Hit(b) == startswith(b.opening_key, branch_key)
    IN SelectSeq(blunders, Hit)

\* the events _weakness_for_branch counts for a branch
Matching(branch_key, opponent_side, blunders) ==
    LET Hit(b) == b.opponent_side = opponent_side
                  /\ startswith(b.opening_key, branch_key)
    IN SelectSeq(blunders, Hit)

RECURSIVE SumDrop(_)
SumDrop(events) ==
    The({IF ev = <<>> THEN 0 ELSE ev[1].drop_cp_equiv + SumDrop(Tail(ev))
         : ev \in {events}})

\* mutant: the blunder rate saturates at 1.0 instead of 0.5
_weakness_for_branch_rate_unscaled(branch_key, opponent_side, games_in_branch, blunders) ==
    The({IF matching = <<>> \/ games_in_branch = 0
         THEN [score |-> Zero, blunder_rate |-> Zero, avg_drop_cp |-> Zero]
         ELSE The({[score |-> FAdd(FMul(Half, FMin(One, blunder_rate)),
                                   FMul(Half, FMin(One, FDiv(avg_drop_cp, FInt(300))))),
                    blunder_rate |-> blunder_rate,
                    avg_drop_cp |-> avg_drop_cp]
                   : blunder_rate \in {Frac(Len(matching), games_in_branch)},
                     avg_drop_cp \in {Frac(SumDrop(matching), Len(matching))}})
         : matching \in {Matching(branch_key, opponent_side, blunders)}})

\* (weakness_score, blunder_rate, avg_drop_cp)
_weakness_for_branch(branch_key, opponent_side, games_in_branch, blunders) ==
    The({IF matching = <<>> \/ games_in_branch = 0
         THEN [score |-> Zero, blunder_rate |-> Zero, avg_drop_cp |-> Zero]
         ELSE The({[score |-> FAdd(FMul(Half, FMin(One, FDiv(blunder_rate, Half))),
                                   FMul(Half, FMin(One, FDiv(avg_drop_cp, FInt(300))))),
                    blunder_rate |-> blunder_rate,
                    avg_drop_cp |-> avg_drop_cp]
                   : blunder_rate \in {Frac(Len(matching), games_in_branch)},
                     avg_drop_cp \in {Frac(SumDrop(matching), Len(matching))}})
         : matching \in {Matching(branch_key, opponent_side, blunders)}})

RECURSIVE MaxGamesOf(_)
MaxGamesOf(branches) ==
    The({IF Len(bs) = 1 THEN bs[1].games
         ELSE Max(bs[1].games, MaxGamesOf(Tail(bs))) : bs \in {branches}})

\* the unrounded components and total of one branch (scoring.py:100-118)
RawScore(br, opponent_side, max_games, blunders, p) ==
    The({[freq_score |-> freq_score, weak |-> weak, fit |-> fit,
          total |-> FAdd(FAdd(FMul(w[1], freq_score), FMul(w[2], weak.score)),
                         FMul(w[3], FInt(fit)))]
         : w \in {_WEIGHTS(p.risk)},
           freq_score \in {IF max_games > 0 THEN Frac(br.games, max_games) ELSE Zero},
           weak \in {_weakness_for_branch(strip(join(br.moves_san)), opponent_side,
                                          br.games, blunders)},
           fit \in {IF _is_banned(br, [i \in 1..Len(p.banned_branch_keywords) |->
                                          lower(p.banned_branch_keywords[i])])
                    THEN 0
                    ELSE IF _fits_repertoire(br, opponent_side, p) THEN 1
                    ELSE 0}})

\* BranchScore(...) as appended to results (scoring.py:120-130)
BranchScore(br, opponent_side, max_games, blunders, p) ==
    The({[branch_moves_san |-> br.moves_san,
          opponent_side |-> opponent_side,
          games |-> br.games,
          frequency_score |-> round(raw.freq_score, 4),
          weakness_score |-> round(raw.weak.score, 4),
          fit_score |-> raw.fit,
          total_score |-> round(raw.total, 4),
          avg_drop_cp |-> round(raw.weak.avg_drop_cp, 1),
          blunder_rate |-> round(raw.weak.blunder_rate, 4)]
         : raw \in {RawScore(br, opponent_side, max_games, blunders, p)}})

\* (side, branches) pairs respecting the focus filter (scoring.py:83-91)
side_branches(rep, p) ==
    (IF p.focus \in {"both", "opp_as_white"}
     THEN <<[side |-> WHITE, branches |-> rep.opening_profile.as_white_top]>>
     ELSE <<>>)
    \o
    (IF p.focus \in {"both", "opp_as_black"}
     THEN <<[side |-> BLACK,
             branches |-> rep.opening_profile.as_black_vs_e4_top
                          \o rep.opening_profile.as_black_vs_d4_top]>>
     ELSE <<>>)

\* the results of one (side, branches) pair, in branch order
ScoreSide(sb, blunders, p) ==
    IF sb.branches = <<>> THEN <<>>
    ELSE The({[i \in 1..Len(sb.branches) |->
                  BranchScore(sb.branches[i], sb.side, max_games, blunders, p)]
              : max_games \in {MaxGamesOf(sb.branches)}})

RECURSIVE Concat(_)
Concat(ss) ==
    The({IF v = <<>> THEN <<>> ELSE v[1] \o Concat(Tail(v)) : v \in {ss}})

\* list.sort(key=total_score, reverse=True): stable, equal keys keep their order
RECURSIVE InsertDesc(_, _)
InsertDesc(sorted, x) ==
    The({IF v = <<>> THEN <<x>>
         ELSE IF v[1].total_score >= x.total_score
              THEN <<v[1]>> \o InsertDesc(Tail(v), x)
              ELSE <<x>> \o v : v \in {sorted}})

\* mutant: the results keep their insertion order
SortByTotalDesc_unsorted(s) == s

RECURSIVE SortByTotalDesc(_)
SortByTotalDesc(s) ==
    The({IF v = <<>> THEN <<>>
         ELSE InsertDesc(SortByTotalDesc(SubSeq(v, 1, Len(v) - 1)), v[Len(v)])
         : v \in {s}})

score_branches(rep, prefs_in) ==
    The({The({SortByTotalDesc(Concat([i \in 1..Len(sbs) |->
                                         ScoreSide(sbs[i], rep.blunders, p)]))
              : sbs \in {side_branches(rep, p)}})
         : p \in {normalize(prefs_in)}})

\* ------------------------------------------------------------------ planner
_blunder_to_turning_point(b) ==
    [pos_key |-> b.pos_key,
     opening_key |-> b.opening_key,
     drop_cp_equiv |-> b.drop_cp_equiv]

\* the parts _headline joins: moves, games, and the two optional suffixes
_headline(bs) ==
    [moves |-> bs.branch_moves_san,
     games |-> bs.games,
     blunder_rate |-> bs.blunder_rate > 0,
     fits |-> bs.fit_score > 0]

\* one step of the selection loop: selected[bs.opponent_side] gets bs while it
\* holds fewer than cap branches (a defaultdict: the key appears on first use)
AddSelected(sel, bs, cap) ==
    The({[j \in 1..Len(sel1) |->
             IF sel1[j].side = bs.opponent_side /\ Len(sel1[j].branches) < cap
             THEN [sel1[j] EXCEPT !.branches = Append(@, bs)]
             ELSE sel1[j]]
         : sel1 \in {IF \E j \in 1..Len(sel) : sel[j].side = bs.opponent_side
                     THEN sel
                     ELSE Append(sel, [side |-> bs.opponent_side, branches |-> <<>>])}})

\* mutant: each side takes one branch more than the cap
RECURSIVE Select_one_more(_, _, _, _)
Select_one_more(rk, i, sel, cap) ==
    The({IF iv > Len(rk) THEN sv
         ELSE Select_one_more(rk, iv + 1, AddSelected(sv, rk[iv], cap + 1), cap)
         : iv \in {i}, sv \in {sel}})

\* select top N per side (planner.py:48-52): a dict from side to the branches
\* kept, its keys in order of first use
RECURSIVE Select(_, _, _, _)
Select(rk, i, sel, cap) ==
    The({IF iv > Len(rk) THEN sv
         ELSE Select(rk, iv + 1, AddSelected(sv, rk[iv], cap), cap)
         : iv \in {i}, sv \in {sel}})

\* mutant: the newest turning point goes to the front of the list
RECURSIVE CollectTurningPoints_newest_first(_, _, _, _, _, _, _)
CollectTurningPoints_newest_first(blunders, i, side, br_key, tps, seen_pos, cap) ==
    The({IF iv > Len(blunders) THEN tv
         ELSE IF blunders[iv].opponent_side /= side
         THEN CollectTurningPoints_newest_first(blunders, iv + 1, side, br_key, tv, sv, cap)
         ELSE IF br_key /= <<>> /\ ~startswith(blunders[iv].opening_key, br_key)
         THEN CollectTurningPoints_newest_first(blunders, iv + 1, side, br_key, tv, sv, cap)
         ELSE IF blunders[iv].pos_key \in sv
         THEN CollectTurningPoints_newest_first(blunders, iv + 1, side, br_key, tv, sv, cap)
         ELSE IF Len(tv) + 1 >= cap
         THEN <<_blunder_to_turning_point(blunders[iv])>> \o tv
         ELSE CollectTurningPoints_newest_first(blunders, iv + 1, side, br_key,
                  <<_blunder_to_turning_point(blunders[iv])>> \o tv,
                  sv \cup {blunders[iv].pos_key}, cap)
         : iv \in {i}, tv \in {tps}, sv \in {seen_pos}})

\* mutant: a position already used is taken again
RECURSIVE CollectTurningPoints_no_dedupe(_, _, _, _, _, _, _)
CollectTurningPoints_no_dedupe(blunders, i, side, br_key, tps, seen_pos, cap) ==
    The({IF iv > Len(blunders) THEN tv
         ELSE IF blunders[iv].opponent_side /= side
         THEN CollectTurningPoints_no_dedupe(blunders, iv + 1, side, br_key, tv, sv, cap)
         ELSE IF br_key /= <<>> /\ ~startswith(blunders[iv].opening_key, br_key)
         THEN CollectTurningPoints_no_dedupe(blunders, iv + 1, side, br_key, tv, sv, cap)
         ELSE IF Len(tv) + 1 >= cap
         THEN Append(tv, _blunder_to_turning_point(blunders[iv]))
         ELSE CollectTurningPoints_no_dedupe(blunders, iv + 1, side, br_key,
                  Append(tv, _blunder_to_turning_point(blunders[iv])),
                  sv \cup {blunders[iv].pos_key}, cap)
         : iv \in {i}, tv \in {tps}, sv \in {seen_pos}})

\* the scan of report.blunders for one chosen branch (planner.py:61-73)
RECURSIVE CollectTurningPoints(_, _, _, _, _, _, _)
CollectTurningPoints(blunders, i, side, br_key, tps, seen_pos, cap) ==
    The({IF iv > Len(blunders) THEN tv
         ELSE IF blunders[iv].opponent_side /= side
         THEN CollectTurningPoints(blunders, iv + 1, side, br_key, tv, sv, cap)
         ELSE IF br_key /= <<>> /\ ~startswith(blunders[iv].opening_key, br_key)
         THEN CollectTurningPoints(blunders, iv + 1, side, br_key, tv, sv, cap)
         ELSE IF blunders[iv].pos_key \in sv
         THEN CollectTurningPoints(blunders, iv + 1, side, br_key, tv, sv, cap)
         ELSE IF Len(tv) + 1 >= cap
         THEN Append(tv, _blunder_to_turning_point(blunders[iv]))
         ELSE CollectTurningPoints(blunders, iv + 1, side, br_key,
                  Append(tv, _blunder_to_turning_point(blunders[iv])),
                  sv \cup {blunders[iv].pos_key}, cap)
         : iv \in {i}, tv \in {tps}, sv \in {seen_pos}})

LinePark(side, bs, blunders, p) ==
    [oppoennt_side |-> side,
     branch_moves_san |-> bs.branch_moves_san,
     headline |-> _headline(bs),
     critical_positions |->
        The({CollectTurningPoints(blunders, 1, side, br_key, <<>>, {},
                                  p.max_turning_points_per_side)
             : br_key \in {strip(join(bs.branch_moves_san))}})]

build_planned_prep(rep, prefs_in) ==
    The({The({The({[pref |-> p,
                    ranked_branches |-> rk,
                    chosen_targets |->
                       Concat([j \in 1..Len(selected) |->
                          [k \in 1..Len(selected[j].branches) |->
                             LinePark(selected[j].side, selected[j].branches[k],
                                      rep.blunders, p)]])]
                   : selected \in {Select(rk, 1, <<>>, p.max_targets_per_side)}})
              : rk \in {score_branches(rep, p)}})
         : p \in {normalize(prefs_in)}})

\* --------------------------------------------------------------- exceptions
\* the outcome of a call: the value it returns, or the exception it raises
Returned(v) == [ok |-> TRUE, value |-> v, raised |-> ""]
Raises(e) == [ok |-> FALSE, value |-> <<>>, raised |-> e]

\* the attributes of the dataclasses (types.py)
PrepConfigFields ==
    {"stockfish_path", "engine_movetime_ms", "engine_threads", "engine_hash_mb",
     "max_games", "max_lies_per_game", "opening_plies", "mistake_drop_cp",
     "blunder_drop_cp", "turning_point_per_side", "dedupe_by_pos_key",
     "only_time_controls", "since_date"}

BlunderEventFields ==
    {"game_id", "ply", "opponent_side", "fen_before", "pos_key", "opening_key",
     "playing_move_uci", "playing_move_san", "drop_cp_equiv", "severity",
     "refutation_pv_uci", "refutation_first_uci"}

BlunderEventRequired == BlunderEventFields \ {"refutation_pv_uci", "refutation_first_uci"}

TurningPointFields ==
    {"title", "fen", "pos_key", "opening_key", "opoonent_mistake_move_san",
     "opoonent_mistake_move_uci", "severity", "drop_cp_equiv", "punish_move_uci",
     "refutation_line_uci", "note"}

TurningPointRequired ==
    TurningPointFields \ {"punish_move_uci", "refutation_line_uci", "note"}

\* Cls(**kwargs) with the keyword values read from attributes of one object:
\* reading an attribute the object lacks raises AttributeError; a keyword the
\* dataclass does not declare, or a required one left out, raises TypeError
Construct(reads, has, kwargs, fields, required, value) ==
    IF \E i \in 1..Len(reads) : reads[i] \notin has THEN Raises("AttributeError")
    ELSE IF ~(kwargs \subseteq fields /\ required \subseteq kwargs) THEN Raises("TypeError")
    ELSE Returned(value)

\* --------------------------------------------------------------- select.py
\* TurningPoint(...) of build_targets (select.py:35-47)
select_turning_point(b) ==
    Construct(<<"drop_cp_equiv", "fen_before", "pos_key", "opening_key",
                "played_move_san", "played_move_uci", "severity", "drop_cp_equiv",
                "refutation_first_uci", "refutation_pv_uci">>,
              BlunderEventFields,
              {"title", "fen", "pos_key", "opening_key", "opening_mistake_move_san",
               "opoonent_mistake_move_uci", "severity", "drop_cp_equiv",
               "punish_move_uci", "refutation_line_uci", "note"},
              TurningPointFields, TurningPointRequired,
              _blunder_to_turning_point(b))

\* sorted(xs, key=lambda x: x.games, reverse=True): stable
RECURSIVE InsertByGames(_, _)
InsertByGames(sorted, x) ==
    The({IF v = <<>> THEN <<x>>
         ELSE IF v[1].games >= x.games
              THEN <<v[1]>> \o InsertByGames(Tail(v), x)
              ELSE <<x>> \o v : v \in {sorted}})

RECURSIVE SortByGamesDesc(_)
SortByGamesDesc(s) ==
    The({IF v = <<>> THEN <<>>
         ELSE InsertByGames(SortByGamesDesc(SubSeq(v, 1, Len(v) - 1)), v[Len(v)])
         : v \in {s}})

\* xs[:n] for n >= 0
Take(xs, n) == The({SubSeq(v, 1, IF n < Len(v) THEN n ELSE Len(v)) : v \in {xs}})

\* the loop over by_side[side] (select.py:29-50)
RECURSIVE PickTurningPoints(_, _, _, _, _)
PickTurningPoints(events, i, chosen, seen, cfg) ==
    The({IF iv > Len(events) THEN Returned(cv)
         ELSE IF cfg.dedupe_by_pos_key /\ events[iv].pos_key \in sv
         THEN PickTurningPoints(events, iv + 1, cv, sv, cfg)
         ELSE The({IF ~tp.ok THEN tp
                   ELSE IF "max_turning_points_per_side" \notin PrepConfigFields
                   THEN Raises("AttributeError")
                   ELSE IF Len(cv) + 1 >= cfg.max_turning_points_per_side
                   THEN Returned(Append(cv, tp.value))
                   ELSE PickTurningPoints(events, iv + 1, Append(cv, tp.value),
                                          sv \cup {events[iv].pos_key}, cfg)
                   : tp \in {select_turning_point(events[iv])}})
         : iv \in {i}, cv \in {chosen}, sv \in {seen}})

\* one pass of the loop over the two sides (select.py:20-61): the targets it
\* appends
SideTarget(side, opening_profile, blunders, cfg) ==
    The({IF ~chosen.ok THEN chosen
         ELSE IF likely_openings = <<>> \/ chosen.value = <<>> THEN Returned(<<>>)
         ELSE Returned(<<[opponent_side |-> side,
                          headline |-> side,
                          likely_openings |-> likely_openings,
                          turning_points |-> chosen.value]>>)
         : likely_openings \in
              {Take(SortByGamesDesc(
                       IF side = WHITE THEN opening_profile.as_white_top
                       ELSE opening_profile.as_black_vs_e4_top
                            \o opening_profile.as_black_vs_d4_top), 3)},
           chosen \in
              {PickTurningPoints(
                   SelectSeq(blunders, LAMBDA b : b.opponent_side = side),
                   1, <<>>, {}, cfg)}})

build_targets(opening_profile, blunders, cfg) ==
    The({IF ~w.ok THEN w
         ELSE The({IF ~b.ok THEN b ELSE Returned(w.value \o b.value)
                   : b \in {SideTarget(BLACK, opening_profile, blunders, cfg)}})
         : w \in {SideTarget(WHITE, opening_profile, blunders, cfg)}})

\* ------------------------------------------------------------ planner_v1.py
\* to_turning_point (planner_v1.py:81-94)
to_turning_point(b) ==
    Construct(<<"drop_cp_equiv", "fen_before", "pos_key", "opening_key",
                "played_move_san", "played_move_uci", "severity", "drop_cp_equiv",
                "refutation_first_uci", "refutation_pv_uci">>,
              BlunderEventFields,
              {"title", "fen", "pos_key", "opening_key", "opponent_mistake_move_san",
               "opponent_mistake_move_uci", "severity", "drop_cp_equiv",
               "punish_move_uci", "refutation_line_uci", "note"},
              TurningPointFields, TurningPointRequired,
              _blunder_to_turning_point(b))

\* the scan of report.blunders for one candidate (planner_v1.py:116-130)
RECURSIVE ScanSimple(_, _, _, _, _, _, _)
ScanSimple(blunders, i, side, br_key, tps, seen_pos, cap) ==
    The({IF iv > Len(blunders) THEN Returned(tv)
         ELSE IF blunders[iv].opponent_side /= side
         THEN ScanSimple(blunders, iv + 1, side, br_key, tv, sv, cap)
         ELSE IF br_key /= <<>> /\ ~startswith(blunders[iv].opening_key, br_key)
         THEN ScanSimple(blunders, iv + 1, side, br_key, tv, sv, cap)
         ELSE IF blunders[iv].pos_key \in sv
         THEN ScanSimple(blunders, iv + 1, side, br_key, tv, sv, cap)
         ELSE The({IF ~tp.ok THEN tp
                   ELSE IF Len(tv) + 1 >= cap THEN Returned(Append(tv, tp.value))
                   ELSE ScanSimple(blunders, iv + 1, side, br_key, Append(tv, tp.value),
                                   sv \cup {blunders[iv].pos_key}, cap)
                   : tp \in {to_turning_point(blunders[iv])}})
         : iv \in {i}, tv \in {tps}, sv \in {seen_pos}})

\* the loop over the candidates of one side (planner_v1.py:112-132)
RECURSIVE SimpleTargets(_, _, _, _, _, _)
SimpleTargets(candidates, i, side, blunders, p, acc) ==
    The({IF iv > Len(candidates) THEN Returned(av)
         ELSE The({IF ~tps.ok THEN tps
                   ELSE SimpleTargets(candidates, iv + 1, side, blunders, p,
                           Append(av, [opponent_side |-> side,
                                       branch |-> candidates[iv],
                                       turning_points |-> tps.value]))
                   : tps \in {ScanSimple(blunders, 1, side,
                                         strip(join(candidates[iv].moves_san)),
                                         <<>>, {}, p.max_turning_points_per_side)}})
         : iv \in {i}, av \in {acc}})

\* the candidates of one side (planner_v1.py:96-110); _is_banned and
\* _fits_repertoire are the same functions as in scoring.py, the keywords are
\* passed as normalize() left them
Candidates(side, rep, p) ==
    IF (p.focus = "opp_as_white" /\ side /= WHITE)
       \/ (p.focus = "opp_as_black" /\ side /= BLACK)
    THEN <<>>
    ELSE Take(SortByGamesDesc(
             SelectSeq(IF side = WHITE THEN rep.opening_profile.as_white_top
                       ELSE rep.opening_profile.as_black_vs_e4_top
                            \o rep.opening_profile.as_black_vs_d4_top,
                       LAMBDA br : /\ ~_is_banned(br, p.banned_branch_keywords)
                                   /\ _fits_repertoire(br, side, p))),
             p.max_targets_per_side)

build_simple_plan(rep, prefs_in) ==
    The({The({IF ~w.ok THEN w
              ELSE The({IF ~all.ok THEN all
                        ELSE Returned([prefs |-> p, targets |-> all.value])
                        : all \in {SimpleTargets(Candidates(BLACK, rep, p), 1, BLACK,
                                                 rep.blunders, p, w.value)}})
              : w \in {SimpleTargets(Candidates(WHITE, rep, p), 1, WHITE,
                                     rep.blunders, p, <<>>)}})
         : p \in {normalize(prefs_in)}})

\* ---------------------------------------------------------------- ingest.py
NoSide == "none"

\* str(n) for a small n >= 0
RECURSIVE str(_)
str(n) ==
    The({IF v < 10 THEN <<<<"0", "1", "2", "3", "4", "5", "6", "7", "8", "9">>[v + 1]>>
         ELSE str(v \div 10) \o str(v % 10) : v \in {n}})

\* hashlib.md5(text).hexdigest()[:12]: equal texts have equal digests, and
\* distinct texts are taken to have distinct ones
md5_12(text) == [md5 |-> text]

\* headers.get("Site"): the header of the game, "?" when the PGN has none (the
\* default tag roster of a parsed game)
HeaderSite(game) == IF game.has_site THEN game.site ELSE <<"?">>

\* game_id (ingest.py:37-38)
GameId(game, idx, n_games) ==
    The({md5_12(IF site /= <<>> THEN site
                ELSE <<"g", "a", "m", "e", "_">> \o str(idx) \o <<"_">> \o str(n_games))
         : site \in {HeaderSite(game)}})

\* GameMeta with the opponent's side resolved (ingest.py:40-60)
Meta(game, game_id, opponent_name) ==
    The({[game_id |-> game_id, site |-> HeaderSite(game), white |-> game.white,
          black |-> game.black, result |-> game.result,
          opponent_name |-> IF side = WHITE THEN game.white
                            ELSE IF side = BLACK THEN game.black ELSE <<>>,
          opponent_side |-> side]
         : side \in {IF opponent_name = <<>> THEN NoSide
                     ELSE IF game.white /= <<>>
                             /\ contains(lower(game.white), lower(opponent_name))
                     THEN WHITE
                     ELSE IF game.black /= <<>>
                             /\ contains(lower(game.black), lower(opponent_name))
                     THEN BLACK
                     ELSE NoSide}})

\* pos_key_from_board: the position without its move clocks
pos_key_from_board(fen) == fen.position

\* board.fen() after the moves played so far: the position those moves lead
\* to, and the clocks
Fen(moves_played) == [position |-> moves_played, clocks |-> Len(moves_played)]

\* the walk along the main line of one game (ingest.py:67-102)
RECURSIVE WalkMoves(_, _, _, _, _, _)
WalkMoves(moves, game_id, ply, opening_moves_san, out, cfg) ==
    The({IF pv > Len(moves) THEN ov
         ELSE The({The({IF cfg.max_lies_per_game /= 0 /\ pv >= cfg.max_lies_per_game
                        THEN pr
                        ELSE WalkMoves(moves, game_id, pv + 1, oms, pr, cfg)
                        : pr \in {Append(ov,
                             [game_id |-> game_id,
                              ply |-> pv,
                              side_who_moved |-> IF pv % 2 = 1 THEN WHITE ELSE BLACK,
                              fen_before |-> Fen(SubSeq(moves, 1, pv - 1)),
                              fen_after |-> Fen(SubSeq(moves, 1, pv)),
                              move_san |-> moves[pv],
                              pos_key |-> pos_key_from_board(Fen(SubSeq(moves, 1, pv - 1))),
                              opening_key |-> join(oms)])}})
                   : oms \in {IF pv <= cfg.opening_plies
                              THEN Append(omv, moves[pv]) ELSE omv}})
         : pv \in {ply}, omv \in {opening_moves_san}, ov \in {out}})

\* the games of all texts in reading order, each with the index of its text
RECURSIVE Entries_of(_, _)
Entries_of(pgn_texts, idx) ==
    IF idx >= Len(pgn_texts) THEN <<>>
    ELSE [j \in 1..Len(pgn_texts[idx + 1]) |->
             [idx |-> idx, game |-> pgn_texts[idx + 1][j]]]
         \o Entries_of(pgn_texts, idx + 1)

\* int(text) succeeds on a run of digits, blanks around it allowed
IsInt(text) ==
    \E t \in {strip(text)} :
        /\ t /= <<>>
        /\ \A j \in 1..Len(t) :
              t[j] \in {"0", "1", "2", "3", "4", "5", "6", "7", "8", "9"}

\* int(headers["WhiteElo"]) if "WhiteElo" in headers else None, and the same
\* for BlackElo: whether the two conversions succeed
ElosConvert(game) ==
    /\ game.white_elo.present => IsInt(game.white_elo.text)
    /\ game.black_elo.present => IsInt(game.black_elo.text)

\* the two nested loops over texts and games (ingest.py:29-105), with the
\* early return once max_games games are read
\* a ValueError of a header conversion leaves the function
RECURSIVE IngestFrom(_, _, _, _, _, _)
IngestFrom(entries, i, games, plies, opponent_name, cfg) ==
    The({IF iv > Len(entries) THEN [games |-> gv, plies |-> pv, raised |-> ""]
         ELSE IF ~ElosConvert(entries[iv].game)
         THEN [games |-> <<>>, plies |-> <<>>, raised |-> "ValueError"]
         ELSE The({The({IF cfg.max_games /= 0 /\ Len(gs) >= cfg.max_games
                        THEN [games |-> gs, plies |-> ps, raised |-> ""]
                        ELSE IngestFrom(entries, iv + 1, gs, ps, opponent_name, cfg)
                        : gs \in {Append(gv, Meta(entries[iv].game, game_id, opponent_name))},
                          ps \in {WalkMoves(entries[iv].game.moves, game_id, 1, <<>>,
                                            pv, cfg)}})
                   : game_id \in {GameId(entries[iv].game, entries[iv].idx, Len(gv))}})
         : iv \in {i}, gv \in {games}, pv \in {plies}})

ingest_pgns(pgn_texts, opponent_name, cfg) ==
    The({IngestFrom(entries, 1, <<>>, <<>>, opponent_name, cfg)
         : entries \in {Entries_of(pgn_texts, 0)}})

\* -------------------------------------------------------------- openings.py
_opponent_points(result, opponent_side) ==
    IF result = "1-0" THEN (IF opponent_side = WHITE THEN One ELSE Zero)
    ELSE IF result = "0-1" THEN (IF opponent_side = BLACK THEN One ELSE Zero)
    ELSE IF result = "1/2-1/2" THEN Half
    ELSE Zero

\* d[k].append(x) on a defaultdict(list), as its items in insertion order
DictAppend(d, k, x) ==
    IF \E j \in 1..Len(d) : d[j].key = k
    THEN [j \in 1..Len(d) |->
             IF d[j].key = k THEN [d[j] EXCEPT !.items = Append(@, x)] ELSE d[j]]
    ELSE Append(d, [key |-> k, items |-> <<x>>])

\* {g.game_id: g for g in games}[game_id]: the last game with that id
meta_by_id(games, game_id) ==
    games[CHOOSE j \in 1..Len(games) :
             /\ games[j].game_id = game_id
             /\ \A k \in (j + 1)..Len(games) : games[k].game_id /= game_id]

\* branch_moves_by_game (openings.py:32-35)
RECURSIVE branch_moves_by_game(_, _, _, _)
branch_moves_by_game(plies, i, acc, cfg) ==
    The({IF iv > Len(plies) THEN av
         ELSE branch_moves_by_game(plies, iv + 1,
                 IF plies[iv].ply < cfg.opening_plies
                 THEN DictAppend(av, plies[iv].game_id, plies[iv].move_san)
                 ELSE av, cfg)
         : iv \in {i}, av \in {acc}})

\* the dict a game's points go to (openings.py:44-60)
StatsBucket(meta, moves) ==
    IF meta.opponent_side = NoSide THEN "none"
    ELSE IF meta.opponent_side = WHITE THEN "stats_white"
    ELSE IF startswith(moves[1], <<"e", "4">>) THEN "stats_black_vs_e4"
    ELSE IF startswith(moves[1], <<"d", "4">>) THEN "stats_black_vs_d4"
    ELSE "none"

\* one of the three stats dicts after the loop over the games (openings.py:42-60)
RECURSIVE Stats(_, _, _, _, _)
Stats(bucket, by_game, i, acc, games) ==
    The({IF iv > Len(by_game) THEN av
         ELSE The({Stats(bucket, by_game, iv + 1,
                         IF StatsBucket(meta, by_game[iv].items) = bucket
                         THEN DictAppend(av, by_game[iv].items,
                                         _opponent_points(meta.result, meta.opponent_side))
                         ELSE av, games)
                   : meta \in {meta_by_id(games, by_game[iv].key)}})
         : iv \in {i}, av \in {acc}})

RECURSIVE FSum(_)
FSum(xs) == The({IF v = <<>> THEN Zero ELSE FAdd(v[1], FSum(Tail(v))) : v \in {xs}})

\* (a.games, a.score) >= (b.games, b.score)
StatGeq(a, b) == a.games > b.games \/ (a.games = b.games /\ FLeq(b.score, a.score))

\* out.sort(key=lambda x: (x.games, x.score), reverse=True): stable
RECURSIVE InsertStat(_, _)
InsertStat(sorted, x) ==
    The({IF v = <<>> THEN <<x>>
         ELSE IF StatGeq(v[1], x) THEN <<v[1]>> \o InsertStat(Tail(v), x)
         ELSE <<x>> \o v : v \in {sorted}})

RECURSIVE SortStats(_)
SortStats(s) ==
    The({IF v = <<>> THEN <<>>
         ELSE InsertStat(SortStats(SubSeq(v, 1, Len(v) - 1)), v[Len(v)]) : v \in {s}})

\* top_list (openings.py:63-74)
top_list(stats, side) ==
    The({Take(SortStats([j \in 1..Len(sv) |->
                            [side |-> side,
                             moves_san |-> sv[j].key,
                             games |-> Len(sv[j].items),
                             score |-> FDiv(FSum(sv[j].items),
                                            FInt(Max(1, Len(sv[j].items))))]]),
              10)
         : sv \in {stats}})

\* next((g.opponent_name for g in games if g.opponent_name), None)
FirstOpponentName(games) ==
    IF \E j \in 1..Len(games) : games[j].opponent_name /= <<>>
    THEN games[CHOOSE j \in 1..Len(games) :
                  /\ games[j].opponent_name /= <<>>
                  /\ \A k \in 1..(j - 1) : games[k].opponent_name = <<>>].opponent_name
    ELSE <<>>

build_opening_profile(games, plies, cfg) ==
    The({[opponent_name |-> FirstOpponentName(games),
          opening_plies |-> cfg.opening_plies,
          as_white_top |-> top_list(Stats("stats_white", by_game, 1, <<>>, games), WHITE),
          as_black_vs_e4_top |->
              top_list(Stats("stats_black_vs_e4", by_game, 1, <<>>, games), BLACK),
          as_black_vs_d4_top |->
              top_list(Stats("stats_black_vs_d4", by_game, 1, <<>>, games), BLACK)]
         : by_game \in {branch_moves_by_game(plies, 1, <<>>, cfg)}})

\* -------------------------------------------------------------- blunders.py
\* Optional[int]
None == [some |-> FALSE, v |-> 0]
Some(x) == [some |-> TRUE, v |-> x]

\* an engine score: centipawns, or mate in v moves (v < 0: being mated); for
\* v = 0, given tells the side that has delivered the mate from the mated one
Cp(x) == [kind |-> "cp", v |-> x, given |-> FALSE]
Mate(x) == [kind |-> "mate", v |-> x, given |-> FALSE]
MateGiven == [kind |-> "mate", v |-> 0, given |-> TRUE]

\* -score
Negated(score) ==
    IF score.kind = "cp" THEN Cp(-score.v)
    ELSE IF score.v /= 0 THEN Mate(-score.v)
    ELSE IF score.given THEN Mate(0) ELSE MateGiven

\* info["score"] of an analysis: the score relative to the side to move
PovScore(relative, turn) == [relative |-> relative, turn |-> turn]

\* score.pov(color)
pov(score, color) ==
    IF score.turn = color THEN score.relative ELSE Negated(score.relative)

\* (cp, mate_in)
_score_to_cp_mate_pov(score, pov_color) ==
    The({IF pv.kind = "mate" THEN [cp |-> None, mate_in |-> Some(pv.v)]
         ELSE [cp |-> Some(pv.v), mate_in |-> None]
         : pv \in {pov(score, pov_color)}})

_mate_or_cp_to_numeric(cp, mate_in) ==
    IF mate_in.some
    THEN (IF mate_in.v > 0 THEN 1 ELSE -1) * (100000 - 1000 * Abs(mate_in.v))
    ELSE IF cp.some THEN cp.v ELSE 0

PlyRecordFields ==
    {"game_id", "ply", "side_who_moved", "fen_before", "fen_after", "move_uci",
     "move_san", "pos_key", "opening_key"}

\* BlunderEvent(...) of extract_opponent_blunders (blunders.py:76-89)
blunder_event(pr, meta, drop, severity) ==
    Construct(<<"game_id", "ply", "fen_before", "pos_key", "opening_key",
                "move_uci", "move_san">>,
              PlyRecordFields,
              {"game_id", "ply", "opponent_side", "fen_before", "pos_key",
               "opening_key", "played_move_uci", "played_move_san", "drop_cp_equiv",
               "severity", "refutation_pv_uci", "refutation_first_uci"},
              BlunderEventFields, BlunderEventRequired,
              [game_id |-> pr.game_id, ply |-> pr.ply,
               opponent_side |-> meta.opponent_side, pos_key |-> pr.pos_key,
               opening_key |-> pr.opening_key, drop_cp_equiv |-> drop,
               severity |-> severity])

\* the side to move in a position
Turn(fen) == IF fen.clocks % 2 = 0 THEN WHITE ELSE BLACK

\* the evaluation loss of the move of ply record i (blunders.py:49-63);
\* answers[i] holds what the engine says of the positions before and after it
Drop(pr, meta, answer) ==
    The({_mate_or_cp_to_numeric(b.cp, b.mate_in) - _mate_or_cp_to_numeric(a.cp, a.mate_in)
         : b \in {_score_to_cp_mate_pov(PovScore(answer.before, Turn(pr.fen_before)),
                                        meta.opponent_side)},
           a \in {_score_to_cp_mate_pov(PovScore(answer.after, Turn(pr.fen_after)),
                                        meta.opponent_side)}})

\* out.sort(key=lambda x: x.drop_cp_equiv, reverse=True): stable
RECURSIVE InsertByDrop(_, _)
InsertByDrop(sorted, x) ==
    The({IF v = <<>> THEN <<x>>
         ELSE IF v[1].drop_cp_equiv >= x.drop_cp_equiv
              THEN <<v[1]>> \o InsertByDrop(Tail(v), x)
              ELSE <<x>> \o v : v \in {sorted}})

RECURSIVE SortByDropDesc(_)
SortByDropDesc(s) ==
    The({IF v = <<>> THEN <<>>
         ELSE InsertByDrop(SortByDropDesc(SubSeq(v, 1, Len(v) - 1)), v[Len(v)])
         : v \in {s}})

\* the loop over the plies (blunders.py:40-89)
\* fail_at is the ply record at whose analysis the engine raises (0: at none)
RECURSIVE ExtractFrom(_, _, _, _, _, _, _)
ExtractFrom(plies, i, out, games, cfg, answers, fail_at) ==
    The({IF iv > Len(plies) THEN Returned(ov)
         ELSE The({IF meta.opponent_side = NoSide
                   THEN ExtractFrom(plies, iv + 1, ov, games, cfg, answers, fail_at)
                   ELSE IF plies[iv].side_who_moved /= meta.opponent_side
                   THEN ExtractFrom(plies, iv + 1, ov, games, cfg, answers, fail_at)
                   ELSE IF iv = fail_at THEN Raises("EngineError")
                   ELSE The({IF drop < cfg.mistake_drop_cp
                             THEN ExtractFrom(plies, iv + 1, ov, games, cfg, answers,
                                              fail_at)
                             ELSE The({IF ~ev.ok THEN ev
                                       ELSE ExtractFrom(plies, iv + 1, Append(ov, ev.value),
                                                        games, cfg, answers, fail_at)
                                       : ev \in {blunder_event(plies[iv], meta, drop,
                                                    IF drop >= cfg.blunder_drop_cp
                                                    THEN "blunder" ELSE "mistake")}})
                             : drop \in {Drop(plies[iv], meta, answers[iv])}})
                   : meta \in {meta_by_id(games, plies[iv].game_id)}})
         : iv \in {i}, ov \in {out}})

\* where the engine fails: when it is started, when it is configured, or at
\* the analysis of one ply record
Faults(start, configure, analyse) ==
    [start |-> start, configure |-> configure, analyse |-> analyse]

NoFaults == Faults(FALSE, FALSE, 0)

\* the outcome of the call, and what it did to the engine process: the engine
\* is started and configured before the try block, and closed in its finally
extract_opponent_blunders(games, plies, cfg, answers, flt) ==
    IF flt.start THEN [call |-> Raises("OSError"), engine |-> <<>>]
    ELSE IF flt.configure
    THEN [call |-> Raises("EngineError"), engine |-> <<"popen_uci">>]
    ELSE The({[call |-> IF ~out.ok THEN out ELSE Returned(SortByDropDesc(out.value)),
               engine |-> <<"popen_uci", "configure", "quit">>]
              : out \in {ExtractFrom(plies, 1, <<>>, games, cfg, answers, flt.analyse)}})

\* ---------------------------------------------------------------- report.py
\* render_markdown_report: the table of blunders reads b.played_move_san and
\* the list of turning points tp.opponent_mistake_move_san; the text is kept
\* as the values it prints
render_markdown_report(opponent_name, games, opening_profile, blunders, target_plans, cfg) ==
    IF blunders /= <<>> /\ "played_move_san" \notin BlunderEventFields
    THEN Raises("AttributeError")
    ELSE IF /\ \E j \in 1..Len(target_plans) :
                  target_plans[j].turning_points /= <<>>
            /\ "opponent_mistake_move_san" \notin TurningPointFields
    THEN Raises("AttributeError")
    ELSE Returned([title |-> IF opponent_name /= <<>> THEN opponent_name
                             ELSE opening_profile.opponent_name,
                   games_ingested |-> Len(games),
                   opening_plies |-> cfg.opening_plies,
                   blunders |-> Len(blunders),
                   targets |-> Len(target_plans)])

\* -------------------------------------------------------------- pipeline.py
\* the PrepReport run_prep returns, or the exception of the first step that
\* raises, and what the run did to the engine process
run_prep(pgn_texts, opponent_name, cfg, answers, flt) ==
    The({IF ing.raised /= "" THEN [call |-> Raises(ing.raised), engine |-> <<>>]
         ELSE The({IF ~det.call.ok THEN det
                   ELSE The({IF ~tg.ok THEN [call |-> tg, engine |-> det.engine]
                             ELSE The({IF ~md.ok THEN [call |-> md, engine |-> det.engine]
                                       ELSE [call |-> Returned(
                                                [games_ingested |-> Len(ing.games),
                                                 opening_profile |-> prof,
                                                 blunders |-> det.call.value,
                                                 targets |-> tg.value,
                                                 markdown_report |-> md.value,
                                                 opponent_name |-> opponent_name]),
                                             engine |-> det.engine]
                                       : md \in {render_markdown_report(
                                                    opponent_name, ing.games, prof,
                                                    det.call.value, tg.value, cfg)}})
                             : tg \in {build_targets(prof, det.call.value, cfg)}})
                   : prof \in {build_opening_profile(ing.games, ing.plies, cfg)},
                     det \in {extract_opponent_blunders(ing.games, ing.plies, cfg,
                                                        answers, flt)}})
         : ing \in {ingest_pgns(pgn_texts, opponent_name, cfg)}})

\* ----------------------------------------------------------------- graph.py
\* the state run_prep_graph invokes the graph with
initial(pgn_texts, opponent_name, cfg, prefs_in, enable_coach) ==
    [pgn_texts |-> pgn_texts,
     opponent_name |-> opponent_name,
     cfg |-> cfg,
     prefs |-> prefs_in,
     games |-> <<>>,
     plies |-> <<>>,
     opening_profile |-> <<>>,
     blunders |-> <<>>,
     targets |-> <<>>,
     report |-> <<>>,
     planned |-> <<>>,
     status |-> "start",
     enable_coach |-> enable_coach]

\* a node's return value, or the exception it raises
ingest_node(state) ==
    The({IF ing.raised /= "" THEN Raises(ing.raised)
         ELSE Returned([games |-> ing.games, plies |-> ing.plies,
                        status |-> "ingested"])
         : ing \in {ingest_pgns(state.pgn_texts, state.opponent_name, state.cfg)}})

profile_node(state) ==
    Returned([opening_profile |->
                 build_opening_profile(state.games, state.plies, state.cfg),
              status |-> "profiled"])

\* with what the run does to the engine process
blunder_node(state, answers, flt) ==
    The({[call |-> IF ~det.call.ok THEN det.call
                   ELSE Returned([blunders |-> det.call.value,
                                  status |-> "blunders_found"]),
          engine |-> det.engine]
         : det \in {extract_opponent_blunders(state.games, state.plies, state.cfg,
                                              answers, flt)}})

report_node(state) ==
    The({IF ~tg.ok THEN tg
         ELSE The({IF ~md.ok THEN md
                   ELSE Returned(
                          [targets |-> tg.value,
                           report |-> [games_ingested |-> Len(state.games),
                                       opening_profile |-> state.opening_profile,
                                       blunders |-> state.blunders,
                                       targets |-> tg.value,
                                       markdown_report |-> md.value,
                                       opponent_name |-> state.opponent_name],
                           status |-> "report_ready"])
                   : md \in {render_markdown_report(
                                state.opponent_name, state.games, state.opening_profile,
                                state.blunders, tg.value, state.cfg)}})
         : tg \in {build_targets(state.opening_profile, state.blunders, state.cfg)}})

plan_node(state) ==
    Returned([planned |-> build_planned_prep(state.report, state.prefs),
              status |-> "planned"])

\* the language model answers, or the call to it fails
coach_node(state, answered) ==
    IF answered THEN Returned([status |-> "coached"]) ELSE Raises("ConnectionError")

END == "END"

_after_plan_never_coach(state) == END

_after_plan(state) == IF state.enable_coach THEN "coach" ELSE END

\* the edges build_prep_graph adds: the node that runs after a node has returned
Successor(node, state) ==
    CASE node = "ingest" -> "profile"
      [] node = "profile" -> "blunders"
      [] node = "blunders" -> "report"
      [] node = "report" -> "plan"
      [] node = "plan" -> _after_plan(state)
      [] node = "coach" -> END

\* the state with the keys a node returned written over it
Merged(state, update) ==
    [k \in DOMAIN state |-> IF k \in DOMAIN update THEN update[k] ELSE state[k]]

\* a run before its first node: the node to run next (START's edge), the nodes
\* entered so far, the node that raised
Invoke(state) == [state |-> state, next |-> "ingest", trace |-> <<>>, raised |-> ""]

\* the run after a node has been entered and has returned or raised
After(run, node, out) ==
    IF out.ok
    THEN The({[state |-> st, next |-> Successor(node, st),
               trace |-> Append(run.trace, node), raised |-> ""]
              : st \in {Merged(run.state, out.value)}})
    ELSE [state |-> run.state, next |-> "raised",
          trace |-> Append(run.trace, node), raised |-> out.raised]

\* ------------------------------------------------------- session_service.py
\* the row of a session and its artifacts (storage_sqlite.py)
Session(cfg, prefs_in, activity_log, artifacts) ==
    [cfg |-> cfg, prefs |-> prefs_in, activity_log |-> activity_log,
     artifacts |-> artifacts]

\* the artifact kind a save operation writes, the message an operation logs
Kind(op) ==
    CASE op = "save_report" -> "report"
      [] op = "save_planned" -> "planned"
      [] op = "save_drills" -> "drills"
      [] op = "save_coaching" -> "coaching"

Message(op) ==
    CASE op = "update_prefs" -> "updated prefs"
      [] op = "update_cfg" -> "updated cfg"
      [] op = "save_report" -> "saved report"
      [] op = "save_planned" -> "saved planned prep"
      [] op = "save_drills" -> "saved drills"
      [] op = "save_coaching" -> "saved coaching advice"

Updates == {"update_prefs", "update_cfg"}
Saves == {"save_report", "save_planned", "save_drills", "save_coaching"}

\* a call of an operation before its first statement: the save operations
\* begin with upsert_artifact, the updates with get_session_meta
Call(op, arg) ==
    [op |-> op, arg |-> arg, at |-> IF op \in Saves THEN "upsert_artifact"
                                    ELSE "get_session_meta",
     meta |-> <<>>]

\* upsert_artifact(session_id, kind, payload): one transaction
upsert_artifact(session, kind, payload) ==
    [session EXCEPT !.artifacts =
        [k \in DOMAIN session.artifacts \cup {kind} |->
            IF k = kind THEN payload ELSE session.artifacts[k]]]

\* get_session_meta(session_id): one transaction, the row as read
get_session_meta(session) ==
    [cfg |-> session.cfg, prefs |-> session.prefs,
     activity_log |-> session.activity_log]

\* the upsert_session_meta call that ends update_prefs, update_cfg and _log:
\* the row read earlier with the entry appended, and the new cfg or prefs
upsert_session_meta(session, call) ==
    [session EXCEPT
        !.cfg = IF call.op = "update_cfg" THEN call.arg ELSE call.meta.cfg,
        !.prefs = IF call.op = "update_prefs" THEN call.arg ELSE call.meta.prefs,
        !.activity_log = Append(call.meta.activity_log, Message(call.op))]

\* ------------------------------------------------------------------- inputs
e4 == <<"e", "4">>
d4 == <<"d", "4">>
c5 == <<"c", "5">>
Nf6 == <<"N", "f", "6">>
Nf3 == <<"N", "f", "3">>

Branch(side, moves, games) == [side |-> side, moves_san |-> moves, games |-> games]

\* a bucket as build_opening_profile leaves it: the branches that occur, most
\* played first
Played(b) == b.games > 0

Bucket(b1, b2) ==
    SelectSeq(IF b1.games >= b2.games THEN <<b1, b2>> ELSE <<b2, b1>>, Played)

\* report with the opponent's lines 1.e4 c5 and 1.d4 Nf6 as White (w1, w2
\* games) and as Black (e1 games against 1.e4, d1 games against 1.d4)
Report(w1, w2, e1, d1, blunders) ==
    [opening_profile |->
        [as_white_top |-> Bucket(Branch(WHITE, <<e4, c5>>, w1),
                                 Branch(WHITE, <<d4, Nf6>>, w2)),
         as_black_vs_e4_top |-> SelectSeq(<<Branch(BLACK, <<e4, c5>>, e1)>>, Played),
         as_black_vs_d4_top |-> SelectSeq(<<Branch(BLACK, <<d4, Nf6>>, d1)>>, Played)],
     blunders |-> blunders]

BlunderEvent(side, opening_key, drop, pos_key) ==
    [opponent_side |-> side, opening_key |-> opening_key,
     drop_cp_equiv |-> drop, pos_key |-> pos_key]

\* extract_opponent_blunders returns its events sorted by drop, largest first
EventLists(pool) ==
    {s \in UNION {[1..n -> pool] : n \in 0..MaxEvents} :
        \A i \in 1..(Len(s) - 1) : s[i].drop_cp_equiv >= s[i + 1].drop_cp_equiv}

\* PrepPrefs() defaults (prefs.py:26-45)
DefaultPrefs ==
    [focus |-> "both",
     risk |-> PRACTICAL,
     as_white_first_moves |-> <<e4, d4>>,
     banned_branch_keywords |-> <<>>,
     max_targets_per_side |-> 3,
     max_turning_points_per_side |-> 10]

Risks == {SOLID, PRACTICAL, SHARP}
Focuses == {"both", "opp_as_white", "opp_as_black"}
Games == 0..MaxGames

\* events inside the two White lines, with drops around the 300 cp mark
WeaknessPool ==
    {BlunderEvent(WHITE, key, drop, "p1") :
        key \in {join(<<e4, c5, Nf3>>), join(<<d4, Nf6>>)},
        drop \in {100, 300, 500}}

\* events that match no line of their side: the other side's, and a key that
\* is shorter than the line
StrayEvents ==
    {<<>>,
     <<BlunderEvent(BLACK, join(<<d4, Nf6>>), 300, "p1")>>,
     <<BlunderEvent(WHITE, join(<<e4>>), 300, "p1"),
       BlunderEvent(BLACK, join(<<d4>>), 300, "p2")>>}

\* repertoire and banned-keyword entries as a user may type them
FirstMoveLists ==
    {<<e4, d4>>, <<e4>>, <<d4>>, <<<<"E", "4">>>>, <<<<"d">>>>,
     <<<<" ", "d", "4", " ">>>>, <<<<>>>>, <<>>}

BannedLists ==
    {<<>>, <<c5>>, <<<<"C", "5">>>>, <<<<"n", "f">>>>, <<<<"N", "F">>>>,
     <<<<"4", " ", "c">>>>, <<<<" ", "c", "5">>>>, <<<<" ">>>>, <<<<"e", "5">>, d4>>}

\* events that repeat positions, for the turning points of a target
PlanPool ==
    {BlunderEvent(x[1], x[2], 200, pos) :
        x \in {<<WHITE, join(<<e4, c5, Nf3>>)>>,
               <<WHITE, join(<<d4, Nf6>>)>>,
               <<BLACK, join(<<e4, c5>>)>>},
        pos \in {"p1", "p2"}}

\* PrepConfig() defaults (types.py:20-43); None is 0 for the two optional caps,
\* which the code only tests for truth
DefaultConfig ==
    [max_games |-> 0,
     max_lies_per_game |-> 0,
     opening_plies |-> 8,
     mistake_drop_cp |-> 80,
     blunder_drop_cp |-> 200,
     turning_point_per_side |-> 10,
     dedupe_by_pos_key |-> TRUE]

e5 == <<"e", "5">>
d5 == <<"d", "5">>
c4 == <<"c", "4">>

\* the scouted player, another player, and the hint the caller gives
Ed == <<"E", "d">>
Finn == <<"F", "i", "n", "n">>
Hint == <<"e", "d">>

\* one game of a PGN text: its Site header if it has one, the players, the
\* result and the SAN moves of the main line
NoElo == [present |-> FALSE, text |-> <<>>]

Game(has_site, site, white, black, result, moves) ==
    [has_site |-> has_site, site |-> site, white |-> white, black |-> black,
     result |-> result, moves |-> moves, white_elo |-> NoElo, black_elo |-> NoElo]

\* the game with a WhiteElo header
WithWhiteElo(game, text) ==
    [game EXCEPT !.white_elo = [present |-> TRUE, text |-> text]]

\* WhiteElo headers: a rating, and what files carry for an unrated player
EloPool == {<<"1", "5", "0", "0">>, <<"?">>, <<>>, <<"-">>}

\* the ways of laying a run of games out over two PGN texts
Splits(gs) == {<<SubSeq(gs, 1, k), SubSeq(gs, k + 1, Len(gs))>> : k \in 0..Len(gs)}

Batch(pgn_texts, opponent_name) ==
    [pgn_texts |-> pgn_texts, opponent_name |-> opponent_name]

NoBatch == Batch(<<>>, <<>>)

\* the number of moves in a batch: no import emits more ply records
RECURSIVE TotalMoves(_)
TotalMoves(gs) == IF gs = <<>> THEN 0 ELSE Len(gs[1].moves) + TotalMoves(Tail(gs))

\* what the engine says of the positions before and after a move, each score
\* relative to the side to move
Answer(before, after) == [before |-> before, after |-> after]

\* a move that keeps a small edge
QuietAnswer == Answer(Cp(30), Cp(-30))

Quiet(n) == [i \in 1..n |-> QuietAnswer]

\* Site headers: none, an empty one, two ordinary ones, and one that spells a
\* synthetic identifier
SitePool ==
    {[has_site |-> FALSE, site |-> <<>>],
     [has_site |-> TRUE, site |-> <<>>],
     [has_site |-> TRUE, site |-> <<"s">>],
     [has_site |-> TRUE, site |-> <<"t">>],
     [has_site |-> TRUE, site |-> <<"g", "a", "m", "e", "_", "0", "_", "1">>]}

\* games that differ in players, result and line
GamePool ==
    {<<Ed, Finn, "1-0", <<e4, e5>>>>,
     <<Ed, Finn, "0-1", <<e4, e5>>>>,
     <<Ed, Finn, "1/2-1/2", <<e4, c5, Nf3>>>>,
     <<Ed, Finn, "1-0", <<d4, d5>>>>,
     <<Finn, Ed, "0-1", <<e4, c5>>>>,
     <<Finn, Ed, "*", <<d4, Nf6>>>>,
     <<Finn, Ed, "1/2-1/2", <<c4, e5>>>>,
     <<Finn, Finn, "1-0", <<e4, e5>>>>,
     <<Ed, Finn, "1-0", <<>>>>}

\* the Site header of the j-th game of a batch whose games all differ in it
SiteOf(j) == <<<<"a">>, <<"b">>, <<"c">>, <<"d">>, <<"e">>>>[j]

\* scores of the position before the opponent's move, for the opponent to move
BeforePool ==
    {Cp(30), Cp(-250), Mate(1), Mate(2), Mate(100), Mate(101), Mate(-1), Mate(-3)}

\* scores of the position after it, for the other side to move; Mate(0) is the
\* other side checkmated
AfterPool ==
    {Cp(-30), Cp(50), Cp(230), Cp(170), Mate(0), Mate(1), Mate(3), Mate(-1),
     Mate(-100), Mate(-101)}

\* ------------------------------------------------------------ state machine
NoPlan == [pref |-> DefaultPrefs, ranked_branches |-> <<>>, chosen_targets |-> <<>>]

\* White lines with every game count against every short event list
InitWeakness ==
    \E w1 \in Games, w2 \in Games, ev \in EventLists(WeaknessPool), risk \in Risks :
        /\ report = Report(w1, w2, 0, 1, ev)
        /\ prefs = [DefaultPrefs EXCEPT !.risk = risk]

\* every game count in every bucket under every focus
InitBuckets ==
    \E w1 \in Games, w2 \in Games, e1 \in Games, d1 \in Games,
       ev \in StrayEvents, focus \in Focuses :
        /\ report = Report(w1, w2, e1, d1, ev)
        /\ prefs = [DefaultPrefs EXCEPT !.focus = focus]

\* every repertoire against every banned-keyword list
InitFit ==
    \E e1 \in {0, 1}, focus \in Focuses, fm \in FirstMoveLists, bk \in BannedLists :
        /\ report = Report(2, 1, e1, 1, <<>>)
        /\ prefs = [DefaultPrefs EXCEPT !.focus = focus,
                                        !.as_white_first_moves = fm,
                                        !.banned_branch_keywords = bk]

\* two equally played White lines whose weighted sums differ by less than the
\* fourth decimal: mean drops of 102.5 and 102.67 centipawns
NearTieEvents ==
    <<BlunderEvent(WHITE, join(<<e4, c5, Nf3>>), 103, "p1"),
      BlunderEvent(WHITE, join(<<d4, Nf6>>), 103, "p2"),
      BlunderEvent(WHITE, join(<<d4, Nf6>>), 103, "p3"),
      BlunderEvent(WHITE, join(<<e4, c5, Nf3>>), 102, "p4"),
      BlunderEvent(WHITE, join(<<d4, Nf6>>), 102, "p5")>>

InitNearTie ==
    \E w \in Games \ {0}, risk \in Risks :
        /\ report = Report(w, w, 0, 1, NearTieEvents)
        /\ prefs = [DefaultPrefs EXCEPT !.risk = risk]

\* every pair of caps against every short list of repeating events
InitPlan ==
    \E w2 \in {1, 2}, ev \in EventLists(PlanPool), mt \in 0..MaxCap, mtp \in 0..MaxCap :
        /\ report = Report(2, w2, 1, 0, ev)
        /\ prefs = [DefaultPrefs EXCEPT !.max_targets_per_side = mt,
                                        !.max_turning_points_per_side = mtp]

\* up to MaxGames games with every choice of Site headers, laid out over two
\* texts, with and without a cap on the games
InitIds ==
    \E n \in 1..MaxGames, mg \in {0, 2} :
        \E sites \in [1..n -> SitePool] :
            \E texts \in Splits([j \in 1..n |->
                            Game(sites[j].has_site, sites[j].site, Ed, Finn, "1-0",
                                 <<e4, e5>>)]) :
                /\ batch = Batch(texts, Hint)
                /\ config = [DefaultConfig EXCEPT !.max_games = mg]
                /\ evals = Quiet(2 * n)

\* one game of up to three moves under every opening depth and ply cap
InitPlies ==
    \E line \in {<<e4, c5, Nf3>>, <<d4, Nf6>>, <<e4, e5>>},
       len \in 0..3, depth \in {0, 1, 2, 8}, cap \in {0, 1, 2},
       site \in SitePool, hint \in {Hint, <<"E", "D">>, <<"f">>, <<"n", "n">>, <<>>} :
        /\ len <= Len(line)
        /\ batch = Batch(<<<<Game(site.has_site, site.site, Ed, Finn, "1-0",
                                  SubSeq(line, 1, len))>>>>, hint)
        /\ config = [DefaultConfig EXCEPT !.opening_plies = depth,
                                          !.max_lies_per_game = cap]
        /\ evals = Quiet(len)

\* up to MaxGames games of the pool, each with a Site header of its own
InitProfile ==
    \E n \in 0..MaxGames, depth \in {2, 3, 8} :
        \E gs \in [1..n -> GamePool] :
            /\ batch = Batch(<<[j \in 1..n |->
                                  Game(TRUE, SiteOf(j), gs[j][1], gs[j][2], gs[j][3],
                                       gs[j][4])]>>, Hint)
            /\ config = [DefaultConfig EXCEPT !.opening_plies = depth]
            /\ evals = Quiet(TotalMoves([j \in 1..n |-> [moves |-> gs[j][4]]]))

\* one game of two moves with the opponent as White, as Black or absent, and
\* every pair of engine scores for the opponent's move
InitBlunders ==
    \E players \in {<<Ed, Finn>>, <<Finn, Ed>>, <<Finn, Finn>>},
       before \in BeforePool, after \in AfterPool :
        /\ batch = Batch(<<<<Game(TRUE, <<"s">>, players[1], players[2], "1-0",
                                  <<e4, e5>>)>>>>, Hint)
        /\ config = DefaultConfig
        /\ evals = IF players[1] = Ed
                   THEN <<Answer(before, after), QuietAnswer>>
                   ELSE <<QuietAnswer, Answer(before, after)>>

\* a game of three moves with the opponent as White: two moves of the opponent
InitTwoMoves ==
    \E b1 \in {Cp(30), Mate(2)}, a1 \in {Cp(-30), Cp(170), Cp(230)},
       b2 \in {Cp(30), Cp(-250)}, a2 \in {Cp(50), Cp(170), Mate(0)} :
        /\ batch = Batch(<<<<Game(TRUE, <<"s">>, Ed, Finn, "1-0", <<e4, c5, Nf3>>)>>>>,
                         Hint)
        /\ config = DefaultConfig
        /\ evals = <<Answer(b1, a1), QuietAnswer, Answer(b2, a2)>>

\* no call made yet
NotCalled == [ok |-> FALSE, value |-> <<>>, raised |-> "not called"]
NoIngest == [games |-> <<>>, plies |-> <<>>, raised |-> ""]
NoProfile ==
    [opponent_name |-> <<>>, opening_plies |-> 0, as_white_top |-> <<>>,
     as_black_vs_e4_top |-> <<>>, as_black_vs_d4_top |-> <<>>]

\* preferences validate() rejects: an unknown focus, no first move, caps of 0
InitInvalid ==
    \E focus \in {"both", "white"}, fm \in {<<e4, d4>>, <<>>}, mt \in {0, 3}, mtp \in {0, 10},
       ev \in StrayEvents :
        /\ report = Report(2, 1, 1, 1, ev)
        /\ prefs = [DefaultPrefs EXCEPT !.focus = focus,
                                        !.as_white_first_moves = fm,
                                        !.max_targets_per_side = mt,
                                        !.max_turning_points_per_side = mtp]

\* a game of three moves with the opponent as White, or no game at all, and an
\* engine that fails to start, to be configured, or to analyse one ply
InitFaults ==
    \E gs \in {<<>>, <<Game(TRUE, <<"s">>, Ed, Finn, "1-0", <<e4, c5, Nf3>>)>>},
       a1 \in {Cp(-30), Cp(170)},
       flt \in {Faults(TRUE, FALSE, 0), Faults(FALSE, TRUE, 0)}
               \cup {Faults(FALSE, FALSE, k) : k \in 0..3} :
        /\ batch = Batch(<<gs>>, Hint)
        /\ config = DefaultConfig
        /\ evals = IF gs = <<>> THEN <<>>
                   ELSE <<Answer(Cp(30), a1), QuietAnswer, QuietAnswer>>
        /\ faults = flt

\* one or two games, one of them with a WhiteElo header
InitElo ==
    \E n \in 1..2, k \in 1..2, elo \in EloPool :
        /\ k <= n
        /\ batch = Batch(<<[j \in 1..n |->
                              IF j = k
                              THEN WithWhiteElo(Game(TRUE, SiteOf(j), Ed, Finn, "1-0",
                                                     <<e4, c5>>), elo)
                              ELSE Game(TRUE, SiteOf(j), Ed, Finn, "1-0",
                                        <<e4, c5>>)]>>, Hint)
        /\ config = DefaultConfig
        /\ evals = Quiet(2 * n)
        /\ faults = NoFaults

\* no run of the graph, no session
NoGraph == Invoke(initial(<<>>, <<>>, DefaultConfig, DefaultPrefs, FALSE))
NoSession == Session(DefaultConfig, DefaultPrefs, <<>>, <<>>)

\* the cfg and the prefs the update operations write
NewConfig == [DefaultConfig EXCEPT !.opening_plies = 10]
NewPrefs == [DefaultPrefs EXCEPT !.risk = SHARP]

\* the argument of a call of an operation of the session service
Argument(op) ==
    IF op = "update_cfg" THEN NewConfig
    ELSE IF op = "update_prefs" THEN NewPrefs
    ELSE <<"payload">>

\* two operations called on a session that exists: it has the entry of its
\* creation, and maybe a report saved earlier
InitSession ==
    \E op1 \in Updates \cup Saves, op2 \in Updates \cup Saves,
       artifacts \in {<<>>, [report |-> <<"earlier">>]} :
        /\ store = Session(DefaultConfig, DefaultPrefs, <<"created session">>, artifacts)
        /\ procs = <<Call(op1, Argument(op1)), Call(op2, Argument(op2))>>

Init ==
    /\ \/ /\ \/ InitWeakness \/ InitBuckets \/ InitFit \/ InitNearTie \/ InitPlan
             \/ InitInvalid
          /\ config = DefaultConfig
          /\ batch = NoBatch
          /\ evals = <<>>
          /\ faults = NoFaults
          /\ graph = NoGraph
          /\ store = NoSession
          /\ procs = <<>>
          /\ pc = "start"
       \/ /\ \/ /\ InitIds \/ InitPlies \/ InitProfile \/ InitBlunders \/ InitTwoMoves
                /\ faults = NoFaults
                /\ pc = "batch"
             \/ /\ InitFaults \/ InitElo \/ (InitTwoMoves /\ faults = NoFaults)
                /\ pc \in {"batch", "graph"}
          /\ report = Report(0, 0, 0, 0, <<>>)
          /\ prefs = DefaultPrefs
          /\ \E enable_coach \in BOOLEAN :
                graph = IF pc = "graph"
                        THEN Invoke(initial(batch.pgn_texts, batch.opponent_name,
                                            config, prefs, enable_coach))
                        ELSE NoGraph
          /\ store = NoSession
          /\ procs = <<>>
       \/ /\ InitSession
          /\ report = Report(0, 0, 0, 0, <<>>)
          /\ prefs = DefaultPrefs
          /\ config = DefaultConfig
          /\ batch = NoBatch
          /\ evals = <<>>
          /\ faults = NoFaults
          /\ graph = NoGraph
          /\ pc = "session"
    /\ ranked = <<>>
    /\ planned = NoPlan
    /\ targets = NotCalled
    /\ simple_plan = NotCalled
    /\ ingest = NoIngest
    /\ profile = NoProfile
    /\ extracted = NotCalled
    /\ engine = <<>>
    /\ prep = NotCalled

\* a caller scores the branches of the report
ScoreBranches ==
    /\ pc = "start"
    /\ ranked' = score_branches(report, prefs)
    /\ pc' = "scored"
    /\ UNCHANGED <<report, prefs, config, batch, evals, planned, targets, simple_plan,
                   ingest, profile, extracted,
                   faults, engine, prep, graph, store, procs>>

\* a caller (the plan node of the graph) builds the plan for the report
BuildPlannedPrep ==
    /\ pc = "start"
    /\ planned' = build_planned_prep(report, prefs)
    /\ ranked' = planned'.ranked_branches
    /\ pc' = "planned"
    /\ UNCHANGED <<report, prefs, config, batch, evals, targets, simple_plan,
                   ingest, profile, extracted,
                   faults, engine, prep, graph, store, procs>>

\* a caller (run_prep) builds the targets for the profile and the events
BuildTargets ==
    /\ pc = "start"
    /\ targets' = build_targets(report.opening_profile, report.blunders, config)
    /\ pc' = "targets"
    /\ UNCHANGED <<report, prefs, config, batch, evals, ranked, planned, simple_plan,
                   ingest, profile, extracted,
                   faults, engine, prep, graph, store, procs>>

\* a caller builds the simple plan for the report
BuildSimplePlan ==
    /\ pc = "start"
    /\ simple_plan' = build_simple_plan(report, prefs)
    /\ pc' = "simple"
    /\ UNCHANGED <<report, prefs, config, batch, evals, ranked, planned, targets,
                   ingest, profile, extracted,
                   faults, engine, prep, graph, store, procs>>

\* a caller imports the batch
IngestPgns ==
    /\ pc = "batch"
    /\ ingest' = ingest_pgns(batch.pgn_texts, batch.opponent_name, config)
    /\ pc' = "ingested"
    /\ UNCHANGED <<report, prefs, config, batch, evals, ranked, planned, targets,
                   simple_plan, profile, extracted,
                   faults, engine, prep, graph, store, procs>>

\* a caller builds the opening profile of the imported games
BuildOpeningProfile ==
    /\ pc = "ingested"
    /\ ingest.raised = ""
    /\ profile' = build_opening_profile(ingest.games, ingest.plies, config)
    /\ pc' = "profiled"
    /\ UNCHANGED <<report, prefs, config, batch, evals, ranked, planned, targets,
                   simple_plan, ingest, extracted,
                   faults, engine, prep, graph, store, procs>>

\* a caller has the engine look at the opponent's moves of the imported games
ExtractOpponentBlunders ==
    /\ pc = "ingested"
    /\ ingest.raised = ""
    /\ \E det \in {extract_opponent_blunders(ingest.games, ingest.plies, config,
                                             evals, faults)} :
          /\ extracted' = det.call
          /\ engine' = det.engine
    /\ pc' = "extracted"
    /\ UNCHANGED <<report, prefs, config, batch, evals, ranked, planned, targets,
                   simple_plan, ingest, profile,
                   faults, prep, graph, store, procs>>

\* a caller runs the whole pipeline on the batch
RunPrep ==
    /\ pc = "batch"
    /\ \E run \in {run_prep(batch.pgn_texts, batch.opponent_name, config, evals,
                            faults)} :
          /\ prep' = run.call
          /\ engine' = run.engine
    /\ pc' = "prepped"
    /\ UNCHANGED <<report, prefs, config, batch, evals, ranked, planned, targets,
                   simple_plan, ingest, profile, extracted, faults, graph, store,
                   procs>>

\* the graph runs the node it has reached; the node returns or raises
IngestNode ==
    /\ pc = "graph"
    /\ graph.next = "ingest"
    /\ graph' = After(graph, "ingest", ingest_node(graph.state))
    /\ UNCHANGED <<report, prefs, config, batch, evals, ranked, planned, targets,
                   simple_plan, ingest, profile, extracted, faults, engine, prep,
                   store, procs, pc>>

ProfileNode ==
    /\ pc = "graph"
    /\ graph.next = "profile"
    /\ graph' = After(graph, "profile", profile_node(graph.state))
    /\ UNCHANGED <<report, prefs, config, batch, evals, ranked, planned, targets,
                   simple_plan, ingest, profile, extracted, faults, engine, prep,
                   store, procs, pc>>

BlunderNode ==
    /\ pc = "graph"
    /\ graph.next = "blunders"
    /\ \E det \in {blunder_node(graph.state, evals, faults)} :
          /\ graph' = After(graph, "blunders", det.call)
          /\ engine' = det.engine
    /\ UNCHANGED <<report, prefs, config, batch, evals, ranked, planned, targets,
                   simple_plan, ingest, profile, extracted, faults, prep, store, procs,
                   pc>>

ReportNode ==
    /\ pc = "graph"
    /\ graph.next = "report"
    /\ graph' = After(graph, "report", report_node(graph.state))
    /\ UNCHANGED <<report, prefs, config, batch, evals, ranked, planned, targets,
                   simple_plan, ingest, profile, extracted, faults, engine, prep,
                   store, procs, pc>>

PlanNode ==
    /\ pc = "graph"
    /\ graph.next = "plan"
    /\ graph' = After(graph, "plan", plan_node(graph.state))
    /\ UNCHANGED <<report, prefs, config, batch, evals, ranked, planned, targets,
                   simple_plan, ingest, profile, extracted, faults, engine, prep,
                   store, procs, pc>>

CoachNode ==
    /\ pc = "graph"
    /\ graph.next = "coach"
    /\ \E answered \in BOOLEAN :
          graph' = After(graph, "coach", coach_node(graph.state, answered))
    /\ UNCHANGED <<report, prefs, config, batch, evals, ranked, planned, targets,
                   simple_plan, ingest, profile, extracted, faults, engine, prep,
                   store, procs, pc>>

\* one of the two operations runs its next call of the store
UpsertArtifact ==
    /\ pc = "session"
    /\ \E p \in 1..Len(procs) :
          /\ procs[p].at = "upsert_artifact"
          /\ store' = upsert_artifact(store, Kind(procs[p].op), procs[p].arg)
          /\ procs' = [procs EXCEPT ![p].at = "get_session_meta"]
    /\ UNCHANGED <<report, prefs, config, batch, evals, ranked, planned, targets,
                   simple_plan, ingest, profile, extracted, faults, engine, prep,
                   graph, pc>>

GetSessionMeta ==
    /\ pc = "session"
    /\ \E p \in 1..Len(procs) :
          /\ procs[p].at = "get_session_meta"
          /\ procs' = [procs EXCEPT ![p].meta = get_session_meta(store),
                                    ![p].at = "upsert_session_meta"]
    /\ UNCHANGED <<report, prefs, config, batch, evals, ranked, planned, targets,
                   simple_plan, ingest, profile, extracted, faults, engine, prep,
                   graph, store, pc>>

UpsertSessionMeta ==
    /\ pc = "session"
    /\ \E p \in 1..Len(procs) :
          /\ procs[p].at = "upsert_session_meta"
          /\ store' = upsert_session_meta(store, procs[p])
          /\ procs' = [procs EXCEPT ![p].at = "done"]
    /\ UNCHANGED <<report, prefs, config, batch, evals, ranked, planned, targets,
                   simple_plan, ingest, profile, extracted, faults, engine, prep,
                   graph, pc>>

Next ==
    \/ ScoreBranches
    \/ BuildPlannedPrep
    \/ BuildTargets
    \/ BuildSimplePlan
    \/ IngestPgns
    \/ BuildOpeningProfile
    \/ ExtractOpponentBlunders
    \/ RunPrep
    \/ IngestNode
    \/ ProfileNode
    \/ BlunderNode
    \/ ReportNode
    \/ PlanNode
    \/ CoachNode
    \/ UpsertArtifact
    \/ GetSessionMeta
    \/ UpsertSessionMeta

Spec == Init /\ [][Next]_vars

\* invoke() runs the node a run has reached until the run ends
GraphStep ==
    IngestNode \/ ProfileNode \/ BlunderNode \/ ReportNode \/ PlanNode \/ CoachNode

FairSpec == Spec /\ WF_vars(GraphStep)

-----------------------------------------------------------------------------
\* Properties of score_branches and build_planned_prep

Range(f) == {f[i] : i \in 1..Len(f)}

Scored == pc \in {"scored", "planned"}
Planned == pc = "planned"

\* the non-blank entries of a preference list, trimmed
Entries(xs) == {strip(x) : x \in {y \in Range(xs) : strip(y) /= <<>>}}

\* the three buckets of the report, each with the side it is scored for
Buckets ==
    {[side |-> WHITE, top |-> report.opening_profile.as_white_top],
     [side |-> BLACK, top |-> report.opening_profile.as_black_vs_e4_top],
     [side |-> BLACK, top |-> report.opening_profile.as_black_vs_d4_top]}

FocusSides ==
    IF prefs.focus = "opp_as_white" THEN {WHITE}
    ELSE IF prefs.focus = "opp_as_black" THEN {BLACK}
    ELSE {WHITE, BLACK}

EntryOf(side, moves) ==
    CHOOSE bs \in Range(ranked) :
        bs.opponent_side = side /\ bs.branch_moves_san = moves

BucketMax(top) ==
    CHOOSE g \in {top[i].games : i \in 1..Len(top)} :
        \A i \in 1..Len(top) : top[i].games <= g

\* C1 (as stated): in each of the three buckets the branch with the bucket's
\* largest game count has frequency score 1.0 and a branch with half of that
\* count has 0.5.
C1_FrequencyPerBucket ==
    Scored =>
        \A bk \in Buckets :
            bk.side \in FocusSides =>
                \A i \in 1..Len(bk.top) :
                    LET bs == EntryOf(bk.side, bk.top[i].moves_san)
                    IN /\ bk.top[i].games = BucketMax(bk.top)
                            => bs.frequency_score = 10000
                       /\ 2 * bk.top[i].games = BucketMax(bk.top)
                            => bs.frequency_score = 5000

\* the events that start with a branch's moves, as positions in report.blunders
EventsOn(side, moves) ==
    {j \in 1..Len(report.blunders) :
        /\ report.blunders[j].opponent_side = side
        /\ startswith(report.blunders[j].opening_key, join(moves))}

RECURSIVE DropTotal(_)
DropTotal(js) ==
    IF js = {} THEN 0
    ELSE LET j == CHOOSE k \in js : TRUE
         IN report.blunders[j].drop_cp_equiv + DropTotal(js \ {j})

\* C2: the weakness score of a branch is exactly 1.0 when its blunder rate is
\* at least 0.5 and its mean drop at least 300 centipawns, and below 1.0 when
\* either is lower.
C2_WeaknessSaturation ==
    Scored =>
        \A bs \in Range(ranked) :
            LET js == EventsOn(bs.opponent_side, bs.branch_moves_san)
                n == Cardinality(js)
                w == _weakness_for_branch(join(bs.branch_moves_san), bs.opponent_side,
                                          bs.games, report.blunders)
            IN IF 2 * n >= bs.games /\ n > 0 /\ DropTotal(js) >= 300 * n
               THEN w.score = One /\ bs.weakness_score = 10000
               ELSE FLess(w.score, One) /\ bs.weakness_score <= 10000

C2_Witness ==
    /\ pc = "scored"
    /\ \E bs \in Range(ranked) :
          /\ bs.weakness_score = 10000
          /\ \E j \in EventsOn(bs.opponent_side, bs.branch_moves_san) :
                report.blunders[j].drop_cp_equiv < 300

\* C3: a branch with no event of its side whose opening key starts with the
\* branch's moves has weakness score 0.
C3_NoEventNoWeakness ==
    Scored =>
        \A bs \in Range(ranked) :
            EventsOn(bs.opponent_side, bs.branch_moves_san) = {}
                => bs.weakness_score = 0 /\ bs.blunder_rate = 0

C3_Witness ==
    /\ pc = "scored"
    /\ \E bs \in Range(ranked) :
          /\ bs.weakness_score = 0
          /\ bs.games >= 2
          /\ EventsOn(bs.opponent_side, bs.branch_moves_san) = {}
          /\ \E j \in 1..Len(report.blunders) :
                /\ report.blunders[j].opponent_side /= bs.opponent_side
                /\ startswith(report.blunders[j].opening_key,
                              join(bs.branch_moves_san))

HasBanned(bs) ==
    \E k \in Entries(prefs.banned_branch_keywords) :
        contains(lower(join(bs.branch_moves_san)), lower(k))

\* C4: a branch whose space-joined moves contain a banned keyword, compared
\* without regard to case, has fit score 0.
C4_BannedNeverFits ==
    Scored => \A bs \in Range(ranked) : HasBanned(bs) => bs.fit_score = 0

C4_Witness ==
    /\ pc = "scored"
    /\ \E bs \in Range(ranked) :
          /\ bs.opponent_side = WHITE
          /\ bs.fit_score = 0
          /\ \E k \in Entries(prefs.banned_branch_keywords) :
                /\ lower(k) /= k
                /\ contains(lower(join(bs.branch_moves_san)), lower(k))
                /\ ~contains(join(bs.branch_moves_san), lower(k))

FirstMoveDeclared(bs) ==
    \E m \in Entries(prefs.as_white_first_moves) :
        startswith(lower(bs.branch_moves_san[1]), lower(m))

\* C5: for a branch without banned keyword, a branch the opponent plays as
\* Black fits exactly when its first move matches, as a case-insensitive
\* prefix, one of the user's declared White first moves; a branch the opponent
\* plays as White always fits.
C5_FitsRepertoire ==
    Scored =>
        \A bs \in Range(ranked) :
            ~HasBanned(bs) =>
                IF bs.opponent_side = BLACK
                THEN bs.fit_score = (IF FirstMoveDeclared(bs) THEN 1 ELSE 0)
                ELSE bs.fit_score = 1

C5_Witness ==
    /\ pc = "scored"
    /\ \E m \in Entries(prefs.as_white_first_moves) : lower(m) /= m
    /\ \E a, b, c \in Range(ranked) :
          /\ ~HasBanned(a) /\ ~HasBanned(b) /\ ~HasBanned(c)
          /\ a.opponent_side = BLACK /\ a.fit_score = 1
          /\ b.opponent_side = BLACK /\ b.fit_score = 0
          /\ c.opponent_side = WHITE /\ c.fit_score = 1

Before(a, b) ==
    \E i, j \in 1..Len(ranked) : i < j /\ ranked[i] = a /\ ranked[j] = b

\* C6: a branch with frequency score 1.0 and weakness score 0 is ranked above
\* a fitting branch of the same side with at most half its games and weakness
\* score of at least 0.75 under the solid profile, and below it under the
\* sharp profile.
C6_RiskOrdering ==
    Scored =>
        \A a, b \in Range(ranked) :
            /\ a.opponent_side = b.opponent_side
            /\ a.frequency_score = 10000 /\ a.weakness_score = 0 /\ a.fit_score = 1
            /\ 2 * b.games <= a.games /\ b.weakness_score >= 7500 /\ b.fit_score = 1
            => /\ prefs.risk = SOLID => Before(a, b)
               /\ prefs.risk = SHARP => Before(b, a)

C6_Witness ==
    /\ pc = "scored"
    /\ prefs.risk = SHARP
    /\ \E a, b \in Range(ranked) :
          /\ a.opponent_side = b.opponent_side
          /\ a.frequency_score = 10000 /\ a.weakness_score = 0 /\ a.fit_score = 1
          /\ 2 * b.games <= a.games /\ b.weakness_score >= 7500 /\ b.fit_score = 1
          /\ Before(b, a)

SideMax(side) ==
    CHOOSE g \in {bs.games : bs \in {x \in Range(ranked) : x.opponent_side = side}} :
        \A bs \in Range(ranked) : bs.opponent_side = side => bs.games <= g

\* the weighted sum of the three components of a result, before any rounding
WeightedSum(bs) ==
    LET w == _WEIGHTS(prefs.risk)
        weak == _weakness_for_branch(join(bs.branch_moves_san), bs.opponent_side,
                                     bs.games, report.blunders).score
    IN FAdd(FAdd(FMul(w[1], Frac(bs.games, SideMax(bs.opponent_side))),
                 FMul(w[2], weak)),
            FMul(w[3], FInt(bs.fit_score)))

WeightsSumToOne ==
    \A r \in {SOLID, PRACTICAL, SHARP} :
        FAdd(FAdd(_WEIGHTS(r)[1], _WEIGHTS(r)[2]), _WEIGHTS(r)[3]) = One

\* C7 (as stated): the results are ordered by non-increasing weighted sum of
\* the three components, and every profile's weights sum to 1.0.
C7_OrderedByWeightedSum ==
    /\ WeightsSumToOne
    /\ Scored =>
          \A i, j \in 1..Len(ranked) :
              i < j => FLeq(WeightedSum(ranked[j]), WeightedSum(ranked[i]))

\* C7 (amended): the results are ordered by non-increasing total_score, the
\* weighted sum of the three components rounded to four decimals, and every
\* profile's weights sum to 1.0.
C7_OrderedByRoundedTotal ==
    /\ WeightsSumToOne
    /\ Scored =>
          /\ \A bs \in Range(ranked) : bs.total_score = round(WeightedSum(bs), 4)
          /\ \A i, j \in 1..Len(ranked) :
                i < j => ranked[j].total_score <= ranked[i].total_score

C7_Witness ==
    /\ pc = "scored"
    /\ \E i, j \in 1..Len(ranked) :
          /\ i < j
          /\ ranked[i].total_score = ranked[j].total_score
          /\ FLess(WeightedSum(ranked[i]), WeightedSum(ranked[j]))
    /\ \E i, j \in 1..Len(ranked) :
          i < j /\ ranked[j].total_score < ranked[i].total_score

Targets == Range(planned.chosen_targets)

\* the events build_planned_prep scans for a target
EventsFor(t) ==
    {j \in 1..Len(report.blunders) :
        /\ report.blunders[j].opponent_side = t.oppoennt_side
        /\ \/ strip(join(t.branch_moves_san)) = <<>>
           \/ startswith(report.blunders[j].opening_key,
                         strip(join(t.branch_moves_san)))}

\* C8: within one target no two turning points share a position key; while
\* the cap is not reached every scanned position appears once.
C8_DistinctPositions ==
    Planned =>
        \A t \in Targets :
            LET tps == t.critical_positions
            IN /\ \A i, j \in 1..Len(tps) :
                     tps[i].pos_key = tps[j].pos_key => i = j
               /\ Len(tps) < planned.pref.max_turning_points_per_side
                     => {tps[i].pos_key : i \in 1..Len(tps)}
                          = {report.blunders[j].pos_key : j \in EventsFor(t)}

C8_Witness ==
    /\ Planned
    /\ \E t \in Targets :
          /\ Len(t.critical_positions) = 1
          /\ prefs.max_turning_points_per_side >= 2
          /\ \E j, k \in EventsFor(t) :
                j /= k /\ report.blunders[j].pos_key = report.blunders[k].pos_key

\* C9 (as stated): no target has more turning points than the cap of the
\* supplied preferences, whatever that cap is.
C9_WithinSuppliedCap ==
    Planned =>
        \A t \in Targets :
            Len(t.critical_positions) <= prefs.max_turning_points_per_side

TargetsOf(side) == {t \in Targets : t.oppoennt_side = side}
RankedOf(side) == {bs \in Range(ranked) : bs.opponent_side = side}

\* C10: each side gets at most max_targets_per_side targets, as many as the
\* cap and the side's branches allow, and no unselected branch of the side has
\* a strictly higher total score than a selected one.
C10_TopTargetsPerSide ==
    Planned =>
        \A side \in {WHITE, BLACK} :
            LET cap == planned.pref.max_targets_per_side
                chosen == {t.branch_moves_san : t \in TargetsOf(side)}
            IN /\ Cardinality(TargetsOf(side)) <= cap
               /\ Cardinality(TargetsOf(side))
                    = (IF Cardinality(RankedOf(side)) < cap
                       THEN Cardinality(RankedOf(side)) ELSE cap)
               /\ chosen \subseteq {bs.branch_moves_san : bs \in RankedOf(side)}
               /\ \A a, b \in RankedOf(side) :
                     a.branch_moves_san \in chosen /\ b.branch_moves_san \notin chosen
                        => b.total_score <= a.total_score

C10_Witness ==
    /\ Planned
    /\ prefs.max_targets_per_side = 1
    /\ \E side \in {WHITE, BLACK} :
          /\ Cardinality(RankedOf(side)) = 2
          /\ Cardinality(TargetsOf(side)) = 1
          /\ \E a, b \in RankedOf(side) :
                /\ a.branch_moves_san \in {t.branch_moves_san : t \in TargetsOf(side)}
                /\ b.total_score < a.total_score

\* the branches of a side in the report
BranchesOf(side) ==
    IF side = WHITE THEN report.opening_profile.as_white_top
    ELSE report.opening_profile.as_black_vs_e4_top
         \o report.opening_profile.as_black_vs_d4_top

\* the events of a side in the report that lie inside a line
EventsInside(side, moves_san) ==
    {b \in Range(report.blunders) :
        /\ b.opponent_side = side
        /\ startswith(b.opening_key, strip(join(moves_san)))}

C12_OneTargetPerSideWithBoth ==
    pc = "targets" =>
        /\ targets.ok
        /\ \A side \in {WHITE, BLACK} :
              Cardinality({j \in 1..Len(targets.value) :
                              targets.value[j].opponent_side = side})
              = IF /\ BranchesOf(side) /= <<>>
                   /\ \E b \in Range(report.blunders) : b.opponent_side = side
                THEN 1 ELSE 0

\* the branches build_planned_prep selects for a side: the first
\* max_targets_per_side of the side in ranked order
SelectedOf(side) ==
    Take(SelectSeq(ranked, LAMBDA bs : bs.opponent_side = side),
         planned.pref.max_targets_per_side)

\* C13: build_simple_plan and build_planned_prep return one target for each
\* branch they select, in the order of selection, whether or not an event
\* qualifies for the branch.
C13_OneTargetPerSelectedBranch ==
    /\ pc = "simple" =>
          /\ simple_plan.ok
          /\ \A side \in {WHITE, BLACK} :
                SelectSeq(simple_plan.value.targets,
                          LAMBDA t : t.opponent_side = side)
                = [j \in 1..Len(Candidates(side, report, normalize(prefs))) |->
                      [opponent_side |-> side,
                       branch |-> Candidates(side, report, normalize(prefs))[j],
                       turning_points |->
                          SelectSeq(simple_plan.value.targets,
                                    LAMBDA t : t.opponent_side = side)[j].turning_points]]
    /\ pc = "planned" =>
          \A side \in {WHITE, BLACK} :
              LET ts == SelectSeq(planned.chosen_targets,
                                  LAMBDA t : t.oppoennt_side = side)
              IN /\ Len(ts) = Len(SelectedOf(side))
                 /\ \A j \in 1..Len(ts) :
                       ts[j].branch_moves_san = SelectedOf(side)[j].branch_moves_san

Ingested == pc \in {"ingested", "profiled", "extracted"}

\* C14: the games of one import have pairwise distinct game ids, whatever
\* their Site headers are.
C14_DistinctGameIds ==
    Ingested =>
        \A i \in 1..Len(ingest.games) : \A j \in 1..Len(ingest.games) :
            i /= j => ingest.games[i].game_id /= ingest.games[j].game_id

\* C15: the opening key of a ply record joins the SAN moves of the plies before
\* it in its game, cut off at the opening depth; the move of the ply itself is
\* not part of it. (The records of a game are emitted in a row, so the record
\* of ply k of the same game stands pr.ply - k places before pr.)
C15_OpeningKeyUpToPredecessor ==
    Ingested =>
        \A i \in 1..Len(ingest.plies) :
            LET pr == ingest.plies[i]
                n == IF pr.ply - 1 < config.opening_plies
                     THEN pr.ply - 1 ELSE config.opening_plies
            IN pr.opening_key
               = join([k \in 1..n |-> ingest.plies[i - pr.ply + k].move_san])

\* the moves of the k-th imported game that became ply records, and those of
\* them at plies strictly below the opening depth
EmittedMoves(k) ==
    LET mv == Entries_of(batch.pgn_texts, 0)[k].game.moves
        cap == config.max_lies_per_game
    IN SubSeq(mv, 1, IF cap /= 0 /\ cap < Len(mv) THEN cap ELSE Len(mv))

BelowDepth(k) ==
    SubSeq(EmittedMoves(k), 1,
           IF config.opening_plies - 1 < Len(EmittedMoves(k))
           THEN config.opening_plies - 1 ELSE Len(EmittedMoves(k)))

\* the imported games of a bucket of the profile
GamesOfBucket(bucket) ==
    {k \in 1..Len(ingest.games) :
        IF bucket = "as_white_top" THEN ingest.games[k].opponent_side = WHITE
        ELSE /\ ingest.games[k].opponent_side = BLACK
             /\ BelowDepth(k) /= <<>>
             /\ startswith(BelowDepth(k)[1],
                           IF bucket = "as_black_vs_e4_top" THEN e4 ELSE d4)}

\* the opponent's points in the k-th imported game, in halves
HalfPoints(k) ==
    LET g == ingest.games[k]
    IN IF g.result = "1/2-1/2" THEN 1
       ELSE IF (g.result = "1-0" /\ g.opponent_side = WHITE)
               \/ (g.result = "0-1" /\ g.opponent_side = BLACK) THEN 2
       ELSE 0

RECURSIVE SumHalfPoints(_)
SumHalfPoints(S) ==
    IF S = {} THEN 0
    ELSE LET k == CHOOSE y \in S : TRUE IN HalfPoints(k) + SumHalfPoints(S \ {k})

ProfileBuckets == {"as_white_top", "as_black_vs_e4_top", "as_black_vs_d4_top"}

\* C16: a branch statistic counts the imported games of its bucket whose moves
\* below the opening depth are the branch, and its score is the mean of the
\* opponent's points in those games.
C16_BranchCountsAndScores ==
    pc = "profiled" =>
        \A bucket \in ProfileBuckets : \A st \in Range(profile[bucket]) :
            LET gs == {k \in GamesOfBucket(bucket) : BelowDepth(k) = st.moves_san}
            IN /\ st.games = Cardinality(gs)
               /\ gs /= {}
               /\ st.score = Frac(SumHalfPoints(gs), 2 * Cardinality(gs))

DistinctIds ==
    \A i \in 1..Len(ingest.games) : \A j \in 1..Len(ingest.games) :
        i /= j => ingest.games[i].game_id /= ingest.games[j].game_id

\* the orders the imported games can be supplied in
Orders ==
    {f \in [1..Len(ingest.games) -> 1..Len(ingest.games)] :
        \A i \in DOMAIN f : \A j \in DOMAIN f : i /= j => f[i] /= f[j]}

\* the imported games in another order, each with its plies
ProfileInOrder(f) ==
    build_opening_profile(
        [j \in 1..Len(f) |-> ingest.games[f[j]]],
        Concat([j \in 1..Len(f) |->
                   SelectSeq(ingest.plies,
                             LAMBDA pr : pr.game_id = ingest.games[f[j]].game_id)]),
        config)

\* C17: for games with distinct ids, the three ranked lists of the profile are
\* the same in whatever order the games (with their plies) are supplied.
C17_OrderOfGamesIrrelevant ==
    (pc = "profiled" /\ DistinctIds) =>
        \A f \in Orders : \A bucket \in ProfileBuckets :
            ProfileInOrder(f)[bucket] = profile[bucket]

\* the ply records the engine is asked about: those moved by the resolved
\* opponent side of their game
Analysed ==
    {i \in 1..Len(ingest.plies) :
        LET meta == meta_by_id(ingest.games, ingest.plies[i].game_id)
        IN meta.opponent_side /= NoSide
           /\ ingest.plies[i].side_who_moved = meta.opponent_side}

OpponentOf(i) == meta_by_id(ingest.games, ingest.plies[i].game_id).opponent_side

\* the engine's scores of the positions before and after ply i, from the
\* opponent's point of view
PovBefore(i) ==
    pov(PovScore(evals[i].before, Turn(ingest.plies[i].fen_before)), OpponentOf(i))

PovAfter(i) ==
    pov(PovScore(evals[i].after, Turn(ingest.plies[i].fen_after)), OpponentOf(i))

\* the number the code gives a score taken from the point of view it has
Numeric(score) ==
    LET t == _score_to_cp_mate_pov(PovScore(score, WHITE), WHITE)
    IN _mate_or_cp_to_numeric(t.cp, t.mate_in)

\* the evaluation loss of ply i
LossOf(i) ==
    Drop(ingest.plies[i], meta_by_id(ingest.games, ingest.plies[i].game_id), evals[i])

\* a mate for the side whose point of view the score has, and one against it
Favourable(score) ==
    score.kind = "mate" /\ (score.v > 0 \/ (score.v = 0 /\ score.given))

Unfavourable(score) ==
    score.kind = "mate" /\ (score.v < 0 \/ (score.v = 0 /\ ~score.given))

\* the scores normalised in a run
ScoresSeen == UNION {{PovBefore(i), PovAfter(i)} : i \in Analysed}

\* C18: among the scores the engine returns, a nearer favourable mate has a
\* strictly larger value than a farther one, every favourable mate a larger
\* value than every centipawn score, and the mirror image holds for mates
\* against the opponent.
C18_OrderingPreserved ==
    pc = "extracted" =>
        \A x \in ScoresSeen : \A y \in ScoresSeen :
            /\ (Favourable(x) /\ Favourable(y) /\ x.v < y.v) => Numeric(x) > Numeric(y)
            /\ (Favourable(x) /\ y.kind = "cp") => Numeric(x) > Numeric(y)
            /\ (Unfavourable(x) /\ Unfavourable(y) /\ x.v > y.v) => Numeric(x) < Numeric(y)
            /\ (Unfavourable(x) /\ y.kind = "cp") => Numeric(x) < Numeric(y)

\* C19: the value of a mate score is positive when the mate favours the
\* opponent and negative when it is against the opponent, mate in 0 included;
\* a move of the opponent that delivers checkmate has no positive loss and no
\* event.
C19_MateSignFollowsFavourability ==
    pc = "extracted" =>
        \A i \in Analysed :
            /\ \A x \in {PovBefore(i), PovAfter(i)} :
                  /\ Favourable(x) => Numeric(x) > 0
                  /\ Unfavourable(x) => Numeric(x) < 0
            /\ PovAfter(i) = MateGiven =>
                  /\ LossOf(i) <= 0
                  /\ \A e \in Range(extracted.value) :
                        ~(e.game_id = ingest.plies[i].game_id
                          /\ e.ply = ingest.plies[i].ply)

\* C20: extract_opponent_blunders returns an event for exactly the plies of
\* the resolved opponent whose loss reaches the mistake threshold, each with
\* severity blunder when the loss reaches the blunder threshold and mistake
\* otherwise.
C20_EventIffLossReachesThreshold ==
    pc = "extracted" =>
        /\ extracted.ok
        /\ \A i \in 1..Len(ingest.plies) :
              (\E e \in Range(extracted.value) :
                  e.game_id = ingest.plies[i].game_id /\ e.ply = ingest.plies[i].ply)
              <=> (i \in Analysed /\ LossOf(i) >= config.mistake_drop_cp)
        /\ \A e \in Range(extracted.value) :
              e.severity = IF e.drop_cp_equiv >= config.blunder_drop_cp
                           THEN "blunder" ELSE "mistake"

\* C23: score_branches and build_planned_prep compute a result only from
\* preferences validate() accepts.
C23_InvalidPrefsRejected ==
    Scored => validate(prefs) = <<>>

\* some increasing choice of places in xs at which the items of ys stand
IsSubsequence(ys, xs) ==
    \E f \in [1..Len(ys) -> 1..Len(xs)] :
        /\ \A j \in 1..Len(ys) : ys[j] = xs[f[j]]
        /\ \A j \in 1..(Len(ys) - 1) : f[j] < f[j + 1]

EventsSortedByLoss ==
    \A i \in 1..(Len(report.blunders) - 1) :
        report.blunders[i].drop_cp_equiv >= report.blunders[i + 1].drop_cp_equiv

\* C27: for events sorted by loss, largest first, the turning points of every
\* target of build_planned_prep stand in non-increasing loss order and are a
\* subsequence of the report's events.
C27_TurningPointsKeepEventOrder ==
    (Planned /\ EventsSortedByLoss) =>
        \A t \in Targets :
            /\ \A j \in 1..(Len(t.critical_positions) - 1) :
                  t.critical_positions[j].drop_cp_equiv
                  >= t.critical_positions[j + 1].drop_cp_equiv
            /\ IsSubsequence(t.critical_positions,
                             [j \in 1..Len(report.blunders) |->
                                 _blunder_to_turning_point(report.blunders[j])])

C27_Witness ==
    /\ Planned
    /\ EventsSortedByLoss
    /\ \E t \in Targets :
          /\ Len(t.critical_positions) >= 2
          /\ t.critical_positions[1].drop_cp_equiv
             > t.critical_positions[Len(t.critical_positions)].drop_cp_equiv
          /\ Len(t.critical_positions) < Len(report.blunders)

\* C28: build_simple_plan has no target for a branch whose space-joined moves
\* contain a banned keyword, compared without regard to case.
C28_SimplePlanSkipsBanned ==
    (pc = "simple" /\ simple_plan.ok) =>
        \A t \in Range(simple_plan.value.targets) :
            ~\E k \in Entries(prefs.banned_branch_keywords) :
                contains(lower(join(t.branch.moves_san)), lower(k))

\* what has been done to the engine process, as a set of positions in the log
Started == {j \in 1..Len(engine) : engine[j] = "popen_uci"}
Closed == {j \in 1..Len(engine) : engine[j] = "quit"}

\* C21: in a run of extract_opponent_blunders the engine process is started
\* once (unless it cannot be started at all), and a started process has been
\* closed when the call is left, whichever way it is left.
C21_EngineStartedOnceAndClosed ==
    pc = "extracted" =>
        /\ Cardinality(Started) = IF faults.start THEN 0 ELSE 1
        /\ \A j \in Started : \E k \in Closed : k > j

\* C22: when the analysis of one ply of the opponent fails, the call still
\* returns, with an event for every other ply whose loss reaches the threshold.
C22_FailedPlySkipped ==
    (pc = "extracted" /\ ~faults.start /\ ~faults.configure
        /\ faults.analyse \in Analysed) =>
        /\ extracted.ok
        /\ \A i \in Analysed \ {faults.analyse} :
              LossOf(i) >= config.mistake_drop_cp =>
                 \E e \in Range(extracted.value) :
                    e.game_id = ingest.plies[i].game_id /\ e.ply = ingest.plies[i].ply

\* the games of the batch whose headers convert
WellFormed ==
    {k \in 1..Len(Entries_of(batch.pgn_texts, 0)) :
        ElosConvert(Entries_of(batch.pgn_texts, 0)[k].game)}

\* C24: ingest_pgns does not raise on a batch with a malformed game; it
\* imports the other games and not the malformed one.
C24_MalformedGameSkipped ==
    pc = "ingested" =>
        /\ ingest.raised = ""
        /\ config.max_games = 0 => Len(ingest.games) = Cardinality(WellFormed)

\* C25: run_prep on a batch without a valid game returns a report of zero
\* games, with empty branch lists, no event and no target, and does not raise.
C25_EmptyBatchReported ==
    (pc = "prepped" /\ WellFormed = {}) =>
        /\ prep.ok
        /\ prep.value.games_ingested = 0
        /\ \A bucket \in ProfileBuckets : prep.value.opening_profile[bucket] = <<>>
        /\ prep.value.blunders = <<>>
        /\ prep.value.targets = <<>>

\* the branches build_opening_profile lists for a side
ProfiledBranches(side) ==
    LET prof == build_opening_profile(ingest.games, ingest.plies, config)
    IN IF side = WHITE THEN prof.as_white_top
       ELSE prof.as_black_vs_e4_top \o prof.as_black_vs_d4_top

\* C29: the event of a ply of the opponent whose loss reaches the threshold is
\* among the events _weakness_for_branch counts for the game's opening branch,
\* when the profile lists that branch, whatever the ply.
C29_EventCountedForItsBranch ==
    pc = "extracted" =>
        \A i \in Analysed :
            LossOf(i) >= config.mistake_drop_cp =>
                \A k \in 1..Len(ingest.games) :
                    \A br \in Range(ProfiledBranches(OpponentOf(i))) :
                        (ingest.games[k].game_id = ingest.plies[i].game_id
                         /\ br.moves_san = BelowDepth(k)) =>
                            Matching(strip(join(br.moves_san)), OpponentOf(i),
                                     <<[opponent_side |-> OpponentOf(i),
                                        opening_key |-> ingest.plies[i].opening_key]>>)
                               /= <<>>

\* the nodes of a run in the order of the edges, the status each one sets
NodeOrder(enable_coach) ==
    <<"ingest", "profile", "blunders", "report", "plan">>
        \o (IF enable_coach THEN <<"coach">> ELSE <<>>)

StatusOrder ==
    <<"start", "ingested", "profiled", "blunders_found", "report_ready", "planned",
      "coached">>

\* the nodes of the run that have returned
ReturnedNodes ==
    IF graph.next = "raised" THEN SubSeq(graph.trace, 1, Len(graph.trace) - 1)
    ELSE graph.trace

GraphInOrder ==
    /\ Len(graph.trace) <= Len(NodeOrder(graph.state.enable_coach))
    /\ graph.trace = SubSeq(NodeOrder(graph.state.enable_coach), 1, Len(graph.trace))
    /\ graph.state.status = StatusOrder[Len(ReturnedNodes) + 1]
    /\ graph.next = END => graph.trace = NodeOrder(graph.state.enable_coach)

\* C26: the nodes of a run of the graph are entered in the order ingest,
\* profile, blunders, report, plan, each once, coach after plan exactly when
\* enable_coach is set; the status is the one of the last node that returned;
\* a run whose nodes all return reaches END.
C26_NodesInOrderToEnd ==
    /\ [](pc = "graph" => GraphInOrder)
    /\ (pc = "graph") ~> (graph.next = END \/ graph.next = "raised")

C26_Witness ==
    /\ pc = "graph"
    /\ graph.next = END
    /\ graph.trace = <<"ingest", "profile", "blunders", "report", "plan", "coach">>
    /\ graph.state.status = "coached"

\* the calls of an operation among the two
CallsOf(op) == {p \in 1..Len(procs) : procs[p].op = op}

\* C30: when both operations on the session have finished, the stored activity
\* log has an entry for each of them, and the stored prefs and cfg are the ones
\* an update wrote.
C30_NoSessionUpdateLost ==
    (pc = "session" /\ \A p \in 1..Len(procs) : procs[p].at = "done") =>
        /\ \A op \in Updates \cup Saves :
              Cardinality({j \in 1..Len(store.activity_log) :
                              store.activity_log[j] = Message(op)})
                 = Cardinality(CallsOf(op))
        /\ CallsOf("update_prefs") /= {} => store.prefs = NewPrefs
        /\ CallsOf("update_cfg") /= {} => store.cfg = NewConfig

====
